---- MODULE Spec2Model ----
(***************************************************************************)
(* A model of the EpicWin CLI core (src/epicwin.py): the transport         *)
(* (request_post), the token extractor (extract_token_and_id), the API     *)
(* wrappers, the session-retry wrapper (with_session_retry), the login     *)
(* flow and the interactive menu loop of main.                             *)
(*                                                                         *)
(* Python values are encoded uniformly:                                    *)
(*  - a scalar field of a JSON object is a string; Absent marks a key that *)
(*    is not in the object, None the Python None / JSON null;              *)
(*  - a text that the code inspects character by character (statusdesc)    *)
(*    is a sequence of one-character strings;                              *)
(*  - a JSON body is a record with one field per key the code reads.       *)
(***************************************************************************)
EXTENDS Integers, Sequences, FiniteSets, TLC

----------------------------------------------------------------------------
(* Python values *)

None == "<None>"
Absent == "<absent>"

\* bool(v) of a scalar: None and the empty string are falsy
Truthy(v) == v \notin {Absent, None, ""}

\* d.get(key): None when the key is absent
Get(v) == IF v = Absent THEN None ELSE v

\* a or b
PyOr(a, b) == IF Truthy(a) THEN a ELSE b

----------------------------------------------------------------------------
(* Texts as sequences of characters *)

UPPER == <<"A","B","C","D","E","F","G","H","I","J","K","L","M",
           "N","O","P","Q","R","S","T","U","V","W","X","Y","Z">>
LOWER == <<"a","b","c","d","e","f","g","h","i","j","k","l","m",
           "n","o","p","q","r","s","t","u","v","w","x","y","z">>

lower_char(c) ==
    IF \E i \in DOMAIN UPPER : UPPER[i] = c
    THEN LOWER[CHOOSE i \in DOMAIN UPPER : UPPER[i] = c]
    ELSE c

\* str.lower()
lower(s) == [i \in 1..Len(s) |-> lower_char(s[i])]

\* str.replace("_", "")
replace_underscore(s) == SelectSeq(s, LAMBDA c : c # "_")

\* k in s
Contains(s, k) ==
    \E i \in 0..(Len(s) - Len(k)) : SubSeq(s, i + 1, i + Len(k)) = k

\* markers for a statusdesc key that is absent, and for a null statusdesc
AbsentDesc == <<"<absent>">>
NullDesc == <<"<None>">>

\* str(v) of the statusdesc value
str(v) == IF v = NullDesc THEN <<"N","o","n","e">> ELSE v

----------------------------------------------------------------------------
(* JSON bodies *)

NoData == [kind |-> "absent", auth_token |-> Absent, token |-> Absent]

NoValue == [kind |-> "absent", items |-> <<>>]

\* an element of a "value" array: a login record or a saved wallet
EmptyElem ==
    [isdict |-> TRUE, extra |-> FALSE,
     session_token |-> Absent, auth_token |-> Absent, token |-> Absent,
     account_id |-> Absent,
     member_bank_id |-> Absent, banklist_id |-> Absent, id |-> Absent,
     member_bank_list_id |-> Absent,
     bank_id |-> Absent, bankname |-> Absent,
     bank_acc_no |-> Absent, account_no |-> Absent, acc_no |-> Absent]

NotADictElem == [EmptyElem EXCEPT !.isdict = FALSE]

ElemKeys ==
    {"session_token", "auth_token", "token", "account_id", "member_bank_id",
     "banklist_id", "id", "member_bank_list_id", "bank_id", "bankname",
     "bank_acc_no", "account_no", "acc_no"}

\* bool(first) of a dict: it has at least one key
ElemTruthy(e) == e.extra \/ \E k \in ElemKeys : e[k] # Absent

EmptyDict ==
    [kind |-> "dict", statusdesc |-> AbsentDesc,
     auth_token |-> Absent, token |-> Absent,
     data |-> NoData, value |-> NoValue,
     error |-> Absent, message |-> Absent, raw_text |-> Absent,
     status |-> Absent]

\* a body that is JSON but not an object (a list, a string, a number)
NotADict == [EmptyDict EXCEPT !.kind = "other"]

ListOf(items) == [kind |-> "list", items |-> items]

----------------------------------------------------------------------------
(* Session-expiry detection: with_session_retry, lines 348-349 *)

SESSION_PHRASES ==
    { <<"s","e","s","s","i","o","n","e","x","p","i","r","e","d">>,
      <<"s","e","s","s","i","o","n"," ","e","x","p","i","r","e","d">> }

\* desc = str(data.get("statusdesc", "")).lower() if isinstance(data, dict) else ""
statusdesc_of(data) ==
    IF data.kind = "dict"
    THEN lower(str(IF data.statusdesc = AbsentDesc THEN <<>> ELSE data.statusdesc))
    ELSE <<>>

\* the mutant: the underscores are not removed
is_session_expired_keep_underscore(data) ==
    \E k \in SESSION_PHRASES : Contains(statusdesc_of(data), k)

\* the mutant: every response is taken for an expiry
is_session_expired_always(data) == data = data

\* any(k in desc.replace("_","") for k in ["sessionexpired", "session expired"])
is_session_expired(data) ==
    \E k \in SESSION_PHRASES : Contains(replace_underscore(statusdesc_of(data)), k)

----------------------------------------------------------------------------
(* Token extraction: extract_token_and_id *)

\* the mutant: the value array is searched before the top-level keys
extract_token_and_id_value_first(login_json) ==
    IF login_json.kind # "dict" THEN [token |-> None, acct |-> None]
    ELSE
      LET value == login_json.value
          first == IF value.kind = "list" /\ Len(value.items) > 0
                      /\ value.items[1].isdict /\ ElemTruthy(value.items[1])
                   THEN value.items[1] ELSE EmptyElem
          token3 == PyOr(PyOr(Get(first.session_token), Get(first.auth_token)),
                         Get(first.token))
          token1 == PyOr(Get(login_json.auth_token), Get(login_json.token))
          data == login_json.data
          token2 == IF data.kind = "dict"
                    THEN PyOr(Get(data.auth_token), Get(data.token)) ELSE None
      IN  [token |-> PyOr(PyOr(token3, token1), token2),
           acct  |-> Get(first.account_id)]

extract_token_and_id(login_json) ==
    IF login_json.kind # "dict" THEN [token |-> None, acct |-> None]
    ELSE
      LET token1 == PyOr(Get(login_json.auth_token), Get(login_json.token))
          data == login_json.data
          token2 == IF ~Truthy(token1) /\ data.kind = "dict"
                    THEN PyOr(Get(data.auth_token), Get(data.token))
                    ELSE token1
          value == login_json.value
      IN  IF ~Truthy(token2) /\ value.kind = "list" /\ Len(value.items) > 0
             /\ value.items[1].isdict /\ ElemTruthy(value.items[1])
          THEN LET first == value.items[1]
               IN  [token |-> PyOr(PyOr(Get(first.session_token),
                                        Get(first.auth_token)),
                                   Get(first.token)),
                    acct  |-> Get(first.account_id)]
          ELSE [token |-> token2, acct |-> None]

----------------------------------------------------------------------------
(* Transport: request_post *)

\* The outcome of requests.post(url, **kwargs): an HTTP response, an
\* exception of class requests.exceptions.RequestException, or an exception
\* of any other class.
Response(status, json) ==
    [kind |-> "response", status |-> status, valid_json |-> TRUE,
     json |-> json, text |-> "<json>"]

TextResponse(status, text) ==
    [kind |-> "response", status |-> status, valid_json |-> FALSE,
     json |-> EmptyDict, text |-> text]

Raises(kind, message) ==
    [kind |-> kind, status |-> -1, valid_json |-> FALSE,
     json |-> EmptyDict, text |-> message]

\* what request_post hands back: a (code, data) pair, or an exception
Returned(code, data) == [raised |-> FALSE, code |-> code, data |-> data]
Raised == [raised |-> TRUE, code |-> -1, data |-> EmptyDict]

\* the mutant: a body that is not JSON is reported as a transport failure
request_post_text_is_failure(path, payload, proxies, http) ==
    IF http.kind = "RequestException" \/ (http.kind = "response" /\ ~http.valid_json)
    THEN Returned(0, [EmptyDict EXCEPT !.error = "request_exception",
                                       !.message = http.text])
    ELSE IF http.kind # "response" THEN Raised
    ELSE Returned(http.status, http.json)

request_post(path, payload, proxies, http) ==
    IF http.kind = "RequestException"
    THEN Returned(0, [EmptyDict EXCEPT !.error = "request_exception",
                                       !.message = http.text])
    ELSE IF http.kind # "response" THEN Raised
    ELSE Returned(http.status,
                  IF http.valid_json THEN http.json
                  ELSE [EmptyDict EXCEPT !.raw_text = http.text])

----------------------------------------------------------------------------
(* API wrappers.  Each takes the outcomes of the HTTP calls it may make and *)
(* gives back an Outcome: what it returns or that it raised, and the        *)
(* requests it sent, in order.                                              *)

Payload(account_id, token) ==
    [account_id |-> account_id, auth_token |-> token, password |-> Absent,
     withdrawal_amount |-> Absent, member_bank_id |-> Absent,
     bank_id |-> Absent, bank_acc_holder |-> Absent, bank_acc_no |-> Absent]

\* one request as sent, with what the upstream answered to it
Sent(path, payload, proxies, r) ==
    [path |-> path, payload |-> payload, proxies |-> proxies,
     answer_expired |-> (~r.raised /\ is_session_expired(r.data))]

Outcome(r, posts) ==
    [raised |-> r.raised, code |-> r.code, data |-> r.data, posts |-> posts]

\* a wrapper that is one request_post call
post_once(path, payload, proxies, http) ==
    LET r == request_post(path, payload, proxies, http)
    IN  Outcome(r, <<Sent(path, payload, proxies, r)>>)

login(account_id, password, proxies, http) ==
    LET o == post_once("/member/memberlogin",
                       [Payload(account_id, Absent) EXCEPT !.password = password],
                       proxies, http)
        e == extract_token_and_id(o.data)
    IN  [raised |-> o.raised, token |-> e.token, acct_from_login |-> e.acct,
         code |-> o.code, data |-> o.data, posts |-> o.posts]

add_update_wallet(account_id, token, holder, number, bank_id, proxies, http) ==
    post_once("/fund/addmemberewalletv2",
              [Payload(account_id, token) EXCEPT !.bank_id = bank_id,
                   !.bank_acc_holder = holder, !.bank_acc_no = number],
              proxies, http)

submit_withdrawal_by_id(account_id, token, amount, member_bank_id, proxies, http) ==
    post_once("/fund/withdrawal",
              [Payload(account_id, token) EXCEPT !.withdrawal_amount = amount,
                   !.member_bank_id = member_bank_id],
              proxies, http)

submit_withdrawal_by_gcash(account_id, token, amount, bank_id, bank_acc_no, proxies, http) ==
    post_once("/fund/withdrawal",
              [Payload(account_id, token) EXCEPT !.withdrawal_amount = amount,
                   !.bank_id = bank_id, !.bank_acc_no = bank_acc_no],
              proxies, http)

get_balance(account_id, token, proxies, http) ==
    post_once("/fund/getbalance", Payload(account_id, token), proxies, http)

get_inbox(account_id, token, proxies, http) ==
    post_once("/fund/getinboxlist", Payload(account_id, token), proxies, http)

get_statement(account_id, token, proxies, http) ==
    post_once("/report/getstatement", Payload(account_id, token), proxies, http)

get_ticket_list(account_id, token, proxies, http) ==
    post_once("/report/getticketlist", Payload(account_id, token), proxies, http)

\* bool(data.get("value"))
ValueTruthy(value) ==
    \/ value.kind = "other"
    \/ value.kind = "list" /\ Len(value.items) > 0

\* the mutant: an empty list from the primary endpoint is returned as it is
get_member_bank_list_no_fallback_on_empty(account_id, token, proxies, h1, h2) ==
    LET p1 == post_once("/fund/getmemberbanklist", Payload(account_id, token),
                        proxies, h1)
    IN  IF p1.raised THEN p1
        ELSE IF p1.code = 200 /\ p1.data.kind = "dict"
        THEN p1
        ELSE LET p2 == post_once("/fund/getbanklistmb", Payload(account_id, token),
                                 proxies, h2)
             IN  [p2 EXCEPT !.posts = p1.posts \o p2.posts]

get_member_bank_list(account_id, token, proxies, h1, h2) ==
    LET p1 == post_once("/fund/getmemberbanklist", Payload(account_id, token),
                        proxies, h1)
    IN  IF p1.raised THEN p1
        ELSE IF p1.code = 200 /\ p1.data.kind = "dict" /\ ValueTruthy(p1.data.value)
        THEN p1
        ELSE LET p2 == post_once("/fund/getbanklistmb", Payload(account_id, token),
                                 proxies, h2)
             IN  [p2 EXCEPT !.posts = p1.posts \o p2.posts]

\* None as the result of pick_first_wallet
NoWallet == NotADictElem

\* the mutant: the last saved wallet is taken
pick_last_wallet(list_json) ==
    IF list_json.kind = "dict" /\ list_json.value.kind = "list"
       /\ Len(list_json.value.items) > 0
    THEN IF list_json.value.items[Len(list_json.value.items)].isdict
         THEN list_json.value.items[Len(list_json.value.items)]
         ELSE NoWallet
    ELSE NoWallet

\* lines 327-331
pick_first_wallet(list_json) ==
    IF list_json.kind = "dict" /\ list_json.value.kind = "list"
       /\ Len(list_json.value.items) > 0
    THEN IF list_json.value.items[1].isdict THEN list_json.value.items[1]
         ELSE NoWallet
    ELSE NoWallet

NO_WALLET_FOUND == <<"n","o","_","w","a","l","l","e","t","_","f","o","u","n","d">>

\* The ids, bank names and account numbers drawn here are strings, on which
\* str() is the identity.
withdraw_using_first_wallet(account_id, token, amount, proxies, h1, h2, h3) ==
    LET l == get_member_bank_list(account_id, token, proxies, h1, h2)
    IN  IF l.raised THEN l
        ELSE IF l.code # 200 \/ l.data.kind # "dict" THEN l
        ELSE
          LET first == pick_first_wallet(l.data)
          IN  IF first = NoWallet \/ ~ElemTruthy(first)
              THEN [raised |-> FALSE, code |-> 200,
                    data |-> [EmptyDict EXCEPT !.status = "-1",
                                               !.statusdesc = NO_WALLET_FOUND],
                    posts |-> l.posts]
              ELSE
                LET member_bank_id ==
                        PyOr(PyOr(PyOr(Get(first.member_bank_id),
                                       Get(first.banklist_id)),
                                  Get(first.id)),
                             Get(first.member_bank_list_id))
                    bank_id == PyOr(PyOr(Get(first.bank_id), Get(first.bankname)),
                                    "GCASH")
                    acc_no  == PyOr(PyOr(Get(first.bank_acc_no),
                                         Get(first.account_no)),
                                    Get(first.acc_no))
                    w == IF Truthy(member_bank_id)
                         THEN submit_withdrawal_by_id(account_id, token, amount,
                                                      member_bank_id, proxies, h3)
                         ELSE submit_withdrawal_by_gcash(account_id, token, amount,
                                                         bank_id, acc_no, proxies, h3)
                IN  [w EXCEPT !.posts = l.posts \o w.posts]

----------------------------------------------------------------------------
(* Proxy configuration *)

NoProxies == [enabled |-> FALSE, url |-> <<>>]

\* an environment variable: set to a value, or unset
EnvSet(v) == [set |-> TRUE, v |-> v]
EnvUnset(v) == [set |-> FALSE, v |-> v]

\* os.getenv(name, default): the variable's value, the default when unset
getenv(variable, default) == IF variable.set THEN variable.v ELSE default

\* s.strip()
IsSpace(c) == c \in {" ", "\t", "\n", "\r"}
RECURSIVE lstrip(_)
lstrip(s) == IF s # <<>> /\ IsSpace(Head(s)) THEN lstrip(Tail(s)) ELSE s
RECURSIVE rstrip(_)
rstrip(s) ==
    IF s # <<>> /\ IsSpace(s[Len(s)]) THEN rstrip(SubSeq(s, 1, Len(s) - 1)) ELSE s
strip(s) == rstrip(lstrip(s))

\* the mutant: an empty host is not looked at
build_proxies_any_host(USE_PROXY, PROXY_HOST, PROXY_PORT, PROXY_USERNAME, PROXY_PASSWORD) ==
    IF USE_PROXY \in { <<"0">>, <<"f","a","l","s","e">>, <<"F","a","l","s","e">> }
    THEN NoProxies
    ELSE IF PROXY_USERNAME # "" /\ PROXY_PASSWORD # ""
    THEN [enabled |-> TRUE,
          url |-> <<"http://", PROXY_USERNAME, ":", PROXY_PASSWORD, "@",
                    PROXY_HOST, ":", PROXY_PORT>>]
    ELSE [enabled |-> TRUE, url |-> <<"http://", PROXY_HOST, ":", PROXY_PORT>>]

build_proxies(USE_PROXY, PROXY_HOST, PROXY_PORT, PROXY_USERNAME, PROXY_PASSWORD) ==
    IF USE_PROXY \in { <<"0">>, <<"f","a","l","s","e">>, <<"F","a","l","s","e">> }
       \/ PROXY_HOST = ""
    THEN NoProxies
    ELSE IF PROXY_USERNAME # "" /\ PROXY_PASSWORD # ""
    THEN [enabled |-> TRUE,
          url |-> <<"http://", PROXY_USERNAME, ":", PROXY_PASSWORD, "@",
                    PROXY_HOST, ":", PROXY_PORT>>]
    ELSE [enabled |-> TRUE, url |-> <<"http://", PROXY_HOST, ":", PROXY_PORT>>]

\* lines 199-214: PROXIES as the module sets it from the environment (the
\* built-in default password is written "default-password")
PROXIES_from(environ) ==
    build_proxies(strip(getenv(environ.USE_PROXY, <<"1">>)),
                  getenv(environ.PROXY_HOST, "proxy.proxyverse.io"),
                  getenv(environ.PROXY_PORT, "9200"),
                  getenv(environ.PROXY_USERNAME, "country-ph"),
                  getenv(environ.PROXY_PASSWORD, "default-password"))

\* the outcomes of the health check's GET through the proxy
ProxyCheckOutcomes == {"ok", "ok_not_json", "bad_status", "exception"}

\* the mutant: without a configured proxy the built-in one is switched on
check_proxy_default_proxy(proxies, current, o) ==
    IF ~proxies.enabled
    THEN build_proxies(<<"1">>, "proxy.proxyverse.io", "9200", "country-ph", "secret")
    ELSE IF o \in {"exception", "ok_not_json"} THEN NoProxies
    ELSE current

\* check_proxy: the value of the global PROXIES after check_proxy(proxies)
check_proxy(proxies, current, o) ==
    IF ~proxies.enabled THEN current
    ELSE IF o \in {"exception", "ok_not_json"} THEN NoProxies
    ELSE current

----------------------------------------------------------------------------
(* Session retry and the login flow *)

EOF == "<EOF>"

\* do_login_flow: in_acct and in_pwd are what the two input() prompts give,
\* EOF when input() raises EOFError
do_login_flow(current_account_id, proxies, in_acct, in_pwd, http) ==
    LET acct == PyOr(current_account_id, in_acct)
        l == login(acct, in_pwd, proxies, http)
        fail(origin, posts) ==
            [raised |-> TRUE, exc |-> origin, token |-> None,
             acct_from_login |-> None, acct |-> acct, posts |-> posts]
    IN  IF ~Truthy(current_account_id) /\ in_acct = EOF THEN fail("input", <<>>)
        ELSE IF in_pwd = EOF THEN fail("input", <<>>)
        ELSE IF l.raised THEN fail("request_post", l.posts)
        ELSE [raised |-> FALSE, exc |-> "none", token |-> l.token,
              acct_from_login |-> l.acct_from_login, acct |-> acct,
              posts |-> l.posts]

\* the mutant: the menu never asks for a login first
login_required_never(token) == FALSE

\* the gate of choices "2" to "8" (lines 427, 437, 446, 453, 460, 474, 483):
\* if not auth_token
login_required(token) == ~Truthy(token)

HOLDER == "holder"
NUMBER == "09170000000"
AMOUNT == "100"

\* fn(account_id, token, *args, headers=headers)
Invoke(fn, account_id, token, proxies, h1, h2, h3) ==
    CASE fn = "add_update_wallet" ->
            add_update_wallet(account_id, token, HOLDER, NUMBER, "GCASH", proxies, h1)
      [] fn = "get_balance" -> get_balance(account_id, token, proxies, h1)
      [] fn = "get_inbox" -> get_inbox(account_id, token, proxies, h1)
      [] fn = "get_statement" -> get_statement(account_id, token, proxies, h1)
      [] fn = "get_ticket_list" -> get_ticket_list(account_id, token, proxies, h1)
      [] fn = "withdraw_using_first_wallet" ->
            withdraw_using_first_wallet(account_id, token, AMOUNT, proxies, h1, h2, h3)

\* the returned tuple (code, data, token, account_id)
Tuple4(code, data, token, account_id) ==
    [code |-> code, data |-> data, token |-> token, account_id |-> account_id]

\* the mutant: a second expiry is sent back to the login flow
wsr_after_retry_again(data) ==
    IF is_session_expired(data) THEN "wsr_login" ELSE "wsr_return"

\* lines 355-356: the result of the second invocation is returned as it is
wsr_after_retry(data) == "wsr_return"

\* the mutant: a result with an error field is taken for an expired session
wsr_after_first_retry_errors(data) ==
    IF is_session_expired(data) \/ data.error # Absent THEN "wsr_login"
    ELSE "wsr_return"

\* lines 348-349, 357
wsr_after_first(data) ==
    IF is_session_expired(data) THEN "wsr_login" ELSE "wsr_return"

\* the mutant: the login's account id is dropped
retry_account_id_keep(account_id, acct_from_login) == account_id

\* line 354: if acct_from_login: account_id = acct_from_login
retry_account_id(account_id, acct_from_login) ==
    IF Truthy(acct_from_login) THEN acct_from_login ELSE account_id

\* the mutant: the login's account id is taken before the token is looked at
wsr_login_failed_takes_account(code, data, token, account_id, acct_from_login) ==
    Tuple4(code, data, token, retry_account_id(account_id, acct_from_login))

\* the mutant: the empty token of the failed login is handed back
wsr_login_failed_drops_token(code, data, token, account_id, acct_from_login) ==
    Tuple4(code, data, None, account_id)

\* lines 352-353: if not new_token: return code, data, token, account_id
wsr_login_failed(code, data, token, account_id, acct_from_login) ==
    Tuple4(code, data, token, account_id)

----------------------------------------------------------------------------
(* Device profiles: make_device_profile.  Texts the code inspects or       *)
(* rewrites (family names, OS versions) are sequences of characters.       *)

Android == <<"A","n","d","r","o","i","d">>
iOS     == <<"i","O","S">>
Windows == <<"W","i","n","d","o","w","s">>
macOS   == <<"m","a","c","O","S">>

ANDROID_POOL ==
    << [vendor |-> "Samsung", model |-> "SM-S911B",   screen |-> <<1440, 3088>>],
       [vendor |-> "Samsung", model |-> "SM-A546E",   screen |-> <<1080, 2340>>],
       [vendor |-> "Xiaomi",  model |-> "2201117TG",  screen |-> <<1080, 2400>>],
       [vendor |-> "OPPO",    model |-> "CPH2457",    screen |-> <<1080, 2400>>],
       [vendor |-> "Realme",  model |-> "RMX3630",    screen |-> <<1080, 2412>>],
       [vendor |-> "OnePlus", model |-> "OnePlus 11", screen |-> <<1440, 3216>>],
       [vendor |-> "Vivo",    model |-> "V2144",      screen |-> <<1080, 2400>>] >>

IOS_POOL ==
    << [vendor |-> "Apple", model |-> "iPhone12,1", screen |-> <<1170, 2532>>],
       [vendor |-> "Apple", model |-> "iPhone14,2", screen |-> <<1179, 2556>>],
       [vendor |-> "Apple", model |-> "iPhone15,2", screen |-> <<1290, 2796>>] >>

WINDOWS_RES == << <<1366, 768>>, <<1600, 900>>, <<1920, 1080>>, <<2560, 1440>> >>

PH_LOCALES == <<"en-PH,en;q=0.9", "tl-PH,tl;q=0.9", "fil-PH,fil;q=0.9">>
PH_TIMEZONE == "Asia/Manila"

families == <<Android, iOS, Windows, macOS>>

\* Python's random module is a generator with a hidden state: the k-th draw
\* of a call is a function of the state the call started in.  randbelow is
\* the draw of an integer below n.
randbelow(rng, k, n) == ((rng + k) * (n - 1)) % n
random_choice(rng, k, seq) == seq[randbelow(rng, k, Len(seq)) + 1]
random_randint(rng, k, a, b) == a + randbelow(rng, k, b - a + 1)

\* seq[i] of a Python list: defined for -len <= i < len, IndexError otherwise
InRange(seq, i) == -Len(seq) <= i /\ i < Len(seq)
Subscript(seq, i) == seq[IF i < 0 THEN i + Len(seq) + 1 ELSE i + 1]

HEX == <<"0","1","2","3","4","5","6","7","8","9","a","b","c","d","e","f">>
DIGITS == <<"0","1","2","3","4","5","6","7","8","9">>

\* hashlib's hexdigest of an input (md5: 32 hex characters, sha1: 40); the
\* input enters as a number that stands for its bytes
hexdigest(input, length) ==
    [i \in 1..length |-> HEX[(((input % 16) * 7 + i * 5 + (i \div 3)) % 16) + 1]]
md5 == 32
sha1 == 40

\* s[:n]
Prefix(s, n) == SubSeq(s, 1, IF n < Len(s) THEN n ELSE Len(s))

\* str(n) of a non-negative integer
RECURSIVE format_int(_)
format_int(n) ==
    IF n < 10 THEN <<DIGITS[n + 1]>>
    ELSE format_int(n \div 10) \o <<DIGITS[(n % 10) + 1]>>

\* s.replace("_", ".")
replace_underscore_by_dot(s) == [i \in 1..Len(s) |-> IF s[i] = "_" THEN "." ELSE s[i]]

\* s.split('.')[0]
RECURSIVE before_first_dot(_)
before_first_dot(s) ==
    IF s = <<>> \/ Head(s) = "." THEN <<>>
    ELSE <<Head(s)>> \o before_first_dot(Tail(s))

\* a Python value that may be an int, a text or None
PyInt(n) == [t |-> "int", n |-> n, s |-> <<>>]
PyStr(s) == [t |-> "str", n |-> 0, s |-> s]
PyNone == [t |-> "none", n |-> 0, s |-> <<>>]

\* the optional profile_variant argument
NoVariant == [given |-> FALSE, n |-> 0]
Variant(n) == [given |-> TRUE, n |-> n]

\* families[profile_variant % len(families)]
family_index(profile_variant) == profile_variant % Len(families)

\* the mutant: the pool is indexed by the selector itself
pool_index_unreduced(profile_variant, pool) == profile_variant

\* the mutant: the selector is reduced by one less than the pool's length
pool_index_short(profile_variant, pool) == profile_variant % (Len(pool) - 1)

\* POOL[profile_variant % len(POOL)]
pool_index(profile_variant, pool) == profile_variant % Len(pool)

\* the mutant: the digest is not truncated
android_id_whole(device_uuid, model_bytes) ==
    hexdigest(device_uuid + model_bytes, md5)

\* hashlib.md5((device_uuid + model).encode()).hexdigest()[:16]
android_id_of(device_uuid, model_bytes) ==
    Prefix(hexdigest(device_uuid + model_bytes, md5), 16)

ProfileKeys ==
    {"device_id", "android_id", "imei", "vendor", "model", "platform",
     "os_version", "screen", "screen_res", "build_id", "deviceMemoryGB",
     "hardwareConcurrency", "accept_language", "locale", "timezone",
     "clock_skew_sec", "x_client_time", "x_local_time", "user_agent",
     "profile_variant"}

\* a user agent, by the parts its format string is filled with
UserAgent(system, os_version, model, engine, browser, major, tail) ==
    [system |-> system, os_version |-> os_version, model |-> model,
     engine |-> engine, browser |-> browser, major |-> major, tail |-> tail]

\* an ISO timestamp, by the instant it shows and its suffix
Timestamp(epoch, suffix) == [epoch |-> epoch, suffix |-> suffix]

\* the profile dictionary before any key is set
NoProfile ==
    [raised |-> FALSE, present |-> {},
     device_id |-> <<>>, android_id |-> <<>>, imei |-> <<>>,
     vendor |-> "", model |-> "", platform |-> <<>>, os_version |-> <<>>,
     screen |-> [width |-> 0, height |-> 0], screen_res |-> <<>>,
     build_id |-> <<>>, deviceMemoryGB |-> 0, hardwareConcurrency |-> 0,
     accept_language |-> "", locale |-> "", timezone |-> "",
     clock_skew_sec |-> PyNone,
     x_client_time |-> Timestamp(0, ""), x_local_time |-> Timestamp(0, ""),
     user_agent |-> UserAgent("", <<>>, "", "", "", <<>>, ""),
     profile_variant |-> <<>>]

\* the call ends in an IndexError: no profile is returned
IndexError == [NoProfile EXCEPT !.raised = TRUE]

\* What a call draws from outside: the state of the random generator, the
\* bytes of os.urandom and the clock.
Entropy(rng, urandom, now) == [rng |-> rng, urandom |-> urandom, now |-> now]

\* lines 75-87
android_device(family, pick, model_bytes, e, device_uuid) ==
    LET os_version == random_choice(e.rng, 3, << <<"1","1">>, <<"1","2">>,
                                          <<"1","3">>, <<"1","4">> >>)
    IN  [NoProfile EXCEPT
           !.vendor = pick.vendor,
           !.model = pick.model,
           !.screen = [width |-> pick.screen[1], height |-> pick.screen[2]],
           !.os_version = os_version,
           !.android_id = android_id_of(device_uuid, model_bytes),
           !.imei = [i \in 1..15 |-> random_choice(e.rng, 3 + i, DIGITS)],
           !.platform = Android,
           !.user_agent = UserAgent("Linux; Android", os_version, pick.model,
                                    "AppleWebKit/537.36", "Chrome",
                                    format_int(random_randint(e.rng, 19, 100, 140)),
                                    "Mobile Safari/537.36"),
           !.deviceMemoryGB = random_choice(e.rng, 20, <<4, 6, 8, 12>>),
           !.hardwareConcurrency = random_choice(e.rng, 21, <<4, 6, 8>>)]

\* lines 89-102
ios_device(family, pick, e) ==
    LET os_version_raw == random_choice(e.rng, 3, << <<"1","5","_","6">>,
                                              <<"1","6","_","7">>,
                                              <<"1","7","_","5">> >>)
        os_version == replace_underscore_by_dot(os_version_raw)
    IN  [NoProfile EXCEPT
           !.vendor = pick.vendor,
           !.model = pick.model,
           !.screen = [width |-> pick.screen[1], height |-> pick.screen[2]],
           !.os_version = os_version,
           !.android_id = <<>>,
           !.imei = <<>>,
           !.platform = iOS,
           !.user_agent = UserAgent("iPhone; CPU iPhone OS", os_version_raw, "",
                                    "AppleWebKit/605.1.15", "Version",
                                    before_first_dot(os_version),
                                    "Mobile/15E148 Safari/604.1"),
           !.deviceMemoryGB = random_choice(e.rng, 20, <<4, 6>>),
           !.hardwareConcurrency = random_choice(e.rng, 21, <<4, 6>>)]

\* lines 104-115
desktop_device(family, e) ==
    LET resolution == random_choice(e.rng, 24, WINDOWS_RES)
        os_version == IF family = Windows
                      THEN random_choice(e.rng, 3, << <<"1","0">>, <<"1","1">> >>)
                      ELSE random_choice(e.rng, 3, << <<"1","2">>, <<"1","3">> >>)
    IN  [NoProfile EXCEPT
           !.vendor = IF family = Windows THEN "GenericPC" ELSE "Apple",
           !.model = IF family = Windows
                     THEN random_choice(e.rng, 2, <<"PC", "Laptop">>)
                     ELSE random_choice(e.rng, 2, <<"MacBook Pro", "MacBook Air">>),
           !.screen = [width |-> resolution[1], height |-> resolution[2]],
           !.os_version = os_version,
           !.android_id = <<>>,
           !.imei = <<>>,
           !.platform = family,
           !.user_agent = UserAgent("Windows NT", os_version, "Win64; x64",
                                    "AppleWebKit/537.36", "Chrome",
                                    format_int(random_randint(e.rng, 19, 100, 140)),
                                    "Safari/537.36"),
           !.deviceMemoryGB = random_choice(e.rng, 20, <<8, 12, 16>>),
           !.hardwareConcurrency = random_choice(e.rng, 21, <<4, 8, 12>>)]

make_device_profile(account_id, profile_variant, e) ==
    LET given == profile_variant.given
        fi == family_index(profile_variant.n)
        family == IF ~given THEN random_choice(e.rng, 1, families)
                  ELSE IF InRange(families, fi) THEN Subscript(families, fi)
                  ELSE <<>>
        pool == IF family = Android THEN ANDROID_POOL
                ELSE IF family = iOS THEN IOS_POOL ELSE <<>>
        pi == IF given THEN pool_index(profile_variant.n, pool)
              ELSE randbelow(e.rng, 2, Len(pool))
        device_uuid == e.urandom
    IN  IF family = <<>> THEN IndexError
        ELSE IF pool # <<>> /\ given /\ ~InRange(pool, pi) THEN IndexError
        ELSE
          LET pick == IF pool = <<>> THEN ANDROID_POOL[1]
                      ELSE Subscript(pool, pi)
              device == IF family = Android
                        THEN android_device(family, pick, pi + 1, e, device_uuid)
                        ELSE IF family = iOS THEN ios_device(family, pick, e)
                        ELSE desktop_device(family, e)
              clock_skew_sec == random_randint(e.rng, 0, -120, 120)
          IN  [device EXCEPT
                 !.present = ProfileKeys,
                 !.device_id = hexdigest(device_uuid, md5),
                 !.screen_res = format_int(device.screen.width) \o <<"x">>
                                \o format_int(device.screen.height),
                 !.build_id = Prefix(hexdigest(device_uuid + e.now, sha1), 8),
                 !.accept_language = IF family # Windows
                                     THEN random_choice(e.rng, 22, PH_LOCALES)
                                     ELSE "en-US,en;q=0.9",
                 !.locale = random_choice(e.rng, 23, <<"en-PH", "tl-PH">>),
                 !.timezone = PH_TIMEZONE,
                 !.clock_skew_sec = PyInt(clock_skew_sec),
                 !.x_client_time = Timestamp(e.now + clock_skew_sec, "Z"),
                 !.x_local_time = Timestamp(e.now + clock_skew_sec + 8 * 3600, ""),
                 !.profile_variant = lower(family)]

----------------------------------------------------------------------------
(* Headers: build_headers.  A header set is a function from header names   *)
(* to values.                                                              *)

IS_TEST_MODE == TRUE
TEST_CLIENT_NAME == "EpicWinCLI/1.1"
TEST_NOTE == "Authorized load testing / QA. Traffic is labeled and non-deceptive."

\* device_profile.get(key, default)
DictGet(d, key, default) == IF key \in d.present THEN d[key] ELSE default

IsDigitText(s) == s # <<>> /\ \A i \in 1..Len(s) : \E j \in 1..10 : s[i] = DIGITS[j]

\* the value of a text of decimal digits
RECURSIVE parse_digits(_)
parse_digits(s) ==
    IF s = <<>> THEN 0
    ELSE LET c == s[Len(s)]
             d == CHOOSE j \in 0..9 : DIGITS[j + 1] = c
         IN  parse_digits(SubSeq(s, 1, Len(s) - 1)) * 10 + d

\* float(v): a number, or the exception it raises (TypeError for None,
\* ValueError for a text that is not a number)
float(v) ==
    IF v.t = "int" THEN [raised |-> FALSE, exc |-> "", x |-> v.n]
    ELSE IF v.t = "none" THEN [raised |-> TRUE, exc |-> "TypeError", x |-> 0]
    ELSE IF IsDigitText(v.s) THEN [raised |-> FALSE, exc |-> "", x |-> parse_digits(v.s)]
    ELSE [raised |-> TRUE, exc |-> "ValueError", x |-> 0]

\* str(v) of an int, a text or None
py_str(v) ==
    IF v.t = "int" THEN (IF v.n < 0 THEN <<"-">> \o format_int(-v.n) ELSE format_int(v.n))
    ELSE IF v.t = "none" THEN <<"N","o","n","e">>
    ELSE v.s

\* email.utils.formatdate(timeval, usegmt=True), by the instant it shows
formatdate(timeval, usegmt) == [epoch |-> timeval, gmt |-> usegmt]

\* the headers dictionary, or the exception that ended the call
Headers(h) == [raised |-> FALSE, exc |-> "", headers |-> h]
HeadersRaised(exc) == [raised |-> TRUE, exc |-> exc, headers |-> <<>>]

\* json.dumps of the device summary (lines 182-192); a missing key is null
client_device(device_profile) ==
    [null |-> {"device_id", "vendor", "model", "platform", "os_version",
               "screen", "deviceMemoryGB", "hardwareConcurrency", "timezone"}
              \ device_profile.present,
     id |-> DictGet(device_profile, "device_id", <<>>),
     vendor |-> DictGet(device_profile, "vendor", ""),
     model |-> DictGet(device_profile, "model", ""),
     os |-> DictGet(device_profile, "platform", <<>>),
     os_version |-> DictGet(device_profile, "os_version", <<>>),
     screen |-> DictGet(device_profile, "screen", NoProfile.screen),
     memory_gb |-> DictGet(device_profile, "deviceMemoryGB", 0),
     hw_threads |-> DictGet(device_profile, "hardwareConcurrency", 0),
     tz |-> DictGet(device_profile, "timezone", "")]

build_headers(device_profile, now, rng) ==
    LET skew == float(DictGet(device_profile, "clock_skew_sec", PyInt(0)))
        platform == DictGet(device_profile, "platform", <<>>)
    IN  IF skew.raised THEN HeadersRaised(skew.exc)
        ELSE IF platform = NullDesc THEN HeadersRaised("AttributeError")
        ELSE Headers(
          ("User-Agent" :> DictGet(device_profile, "user_agent",
                 UserAgent("EpicWinCLI/unknown", <<>>, "", "", "", <<>>, "")))
          @@ ("Accept" :> "application/json, text/plain, */*")
          @@ ("Content-Type" :> "application/json")
          @@ ("Origin" :> "https://epicwincasino.ph")
          @@ ("Referer" :> "https://epicwincasino.ph/")
          @@ ("Accept-Encoding" :> "gzip, deflate, br, zstd")
          @@ ("Accept-Language" :> DictGet(device_profile, "accept_language", "en-PH"))
          @@ ("Date" :> formatdate(now + skew.x, TRUE))
          @@ ("X-Client-Time" :> DictGet(device_profile, "x_client_time", Timestamp(0, "<empty>")))
          @@ ("X-Local-Time" :> DictGet(device_profile, "x_local_time", Timestamp(0, "<empty>")))
          @@ ("X-Clock-Skew-Seconds" :>
                 py_str(DictGet(device_profile, "clock_skew_sec", PyInt(0))))
          @@ ("X-Timezone" :> DictGet(device_profile, "timezone", "Asia/Manila"))
          @@ ("sec-ch-ua" :> [Chromium |-> random_randint(rng, 25, 118, 140),
                              NotABrand |-> 24])
          @@ ("sec-ch-ua-mobile" :>
                 IF lower(platform) \in { <<"a","n","d","r","o","i","d">>, <<"i","o","s">> }
                 THEN "?1" ELSE "?0")
          @@ ("sec-ch-ua-platform" :>
                 <<"\"">> \o DictGet(device_profile, "platform", Android) \o <<"\"">>)
          @@ ("X-Device-Vendor" :> DictGet(device_profile, "vendor", ""))
          @@ ("X-Device-Model" :> DictGet(device_profile, "model", ""))
          @@ ("X-Device-OS" :> platform)
          @@ ("X-Device-OS-Version" :> DictGet(device_profile, "os_version", <<>>))
          @@ ("X-Test-Mode" :> IF IS_TEST_MODE THEN "true" ELSE "false")
          @@ ("X-Test-Client" :> TEST_CLIENT_NAME)
          @@ ("X-Test-Note" :> TEST_NOTE)
          @@ ("X-Test-Profile-Id" :>
                 DictGet(device_profile, "profile_variant", <<"u","n","k","n","o","w","n">>))
          @@ ("X-Client-Device" :> client_device(device_profile)))

----------------------------------------------------------------------------
(* What the upstream may answer *)

DescOk == <<"o","k">>
DescInvalid == <<"I","n","v","a","l","i","d">>
DescSessionExpired1 ==
    <<"S","e","s","s","i","o","n","_","E","x","p","i","r","e","d">>
DescSessionExpired2 ==
    <<"s","e","s","s","i","o","n"," ","e","x","p","i","r","e","d">>

\* the statusdesc values of the answers below that signal an expired session,
\* and those that do not
ExpiryDescs == {DescSessionExpired1, DescSessionExpired2}
PlainDescs == {DescOk, DescInvalid, AbsentDesc, NO_WALLET_FOUND}

Tokens == {"T1", "T2"}
AccountIds == {"A0", "A1"}

Failure == Raises("RequestException", "timed out")
OtherFailure == Raises("Exception", "TypeError")

OpResponses ==
    { Response(200, [EmptyDict EXCEPT !.statusdesc = DescOk]),
      Response(200, [EmptyDict EXCEPT !.statusdesc = DescSessionExpired1]),
      Response(401, [EmptyDict EXCEPT !.statusdesc = DescSessionExpired2]),
      Response(400, [EmptyDict EXCEPT !.statusdesc = DescInvalid, !.error = "bad"]),
      Response(200, [EmptyDict EXCEPT !.status = "-1", !.error = "insufficient"]),
      Response(200, NotADict),
      TextResponse(502, "<html>Bad Gateway</html>"),
      Failure, OtherFailure }

Wallet1 == [EmptyElem EXCEPT !.member_bank_id = "W1", !.bank_id = "GCASH",
                             !.bank_acc_no = "0917"]
Wallet2 == [EmptyElem EXCEPT !.id = "W2", !.bankname = "MAYA", !.account_no = "0918"]
WalletNoId == [EmptyElem EXCEPT !.bankname = "MAYA", !.acc_no = "0919"]

BankListResponses ==
    { Response(200, [EmptyDict EXCEPT !.value = ListOf(<<Wallet1, Wallet2>>)]),
      Response(200, [EmptyDict EXCEPT !.value = ListOf(<<WalletNoId, Wallet1>>)]),
      Response(200, [EmptyDict EXCEPT !.statusdesc = DescOk, !.value = ListOf(<<>>)]),
      Response(200, [EmptyDict EXCEPT !.statusdesc = DescSessionExpired1]),
      Response(401, [EmptyDict EXCEPT !.statusdesc = DescSessionExpired2]),
      Failure, OtherFailure }

\* the answers to the withdrawal request
WithdrawalResponses ==
    { Response(200, [EmptyDict EXCEPT !.statusdesc = DescOk]),
      Response(200, [EmptyDict EXCEPT !.statusdesc = DescSessionExpired1]),
      TextResponse(502, "<html>Bad Gateway</html>"),
      OtherFailure }

LoginResponses ==
    { Response(200, [EmptyDict EXCEPT !.auth_token = t]) : t \in Tokens } \cup
    { Response(200, [EmptyDict EXCEPT
          !.value = ListOf(<<[EmptyElem EXCEPT !.session_token = "T2",
                                               !.account_id = "A1"]>>)]),
      Response(200, [EmptyDict EXCEPT !.statusdesc = DescInvalid,
          !.value = ListOf(<<[EmptyElem EXCEPT !.account_id = "A1"]>>)]),
      Response(401, [EmptyDict EXCEPT !.statusdesc = DescInvalid]),
      Failure, OtherFailure }

----------------------------------------------------------------------------
(* The program: main, lines 388-496 *)

VARIABLES
    pc,          \* where main is
    PROXIES,     \* the module global
    proxy_check, \* how the startup health check of the proxy ended
    account_id,  \* main's account_id
    auth_token,  \* main's auth_token
    choice,      \* the menu choice being served
    notice,      \* what the last menu choice printed when it sent nothing
    wsr,         \* the frame of the running with_session_retry call
    ret,         \* what the call that just returned gave back
    calls,       \* the invocations of fn and of the login flow by this call
    posts,       \* the requests sent by the latest invocation (of fn, of the login flow)
    exc,         \* the origin of the exception that ended the program
    arg,         \* the argument of a function applied on its own
    res          \* and its result

vars == <<pc, PROXIES, proxy_check, account_id, auth_token, choice, notice, wsr, ret, calls,
          posts, exc, arg, res>>

NoFrame ==
    [fn |-> "-", account_id |-> None, token |-> None, code |-> -1,
     data |-> EmptyDict, new_token |-> None]

NoRet == Tuple4(-1, EmptyDict, None, None)

\* an invocation of fn, or a run of the login flow, inside with_session_retry
FnCall(account_id0, token0, o) ==
    [ev |-> "fn", account_id |-> account_id0, token |-> token0,
     code |-> o.code, data |-> o.data, new_token |-> None,
     acct_from_login |-> None]

LoginCall(account_id0, f) ==
    [ev |-> "login", account_id |-> account_id0, token |-> None,
     code |-> -1, data |-> EmptyDict, new_token |-> f.token,
     acct_from_login |-> f.acct_from_login]

\* the environments the process may be started in
StartProxies ==
    { build_proxies(u, h, "9200", "country-ph", "secret") :
        u \in { <<"1">>, <<"0">> }, h \in {"proxy.proxyverse.io", ""} }

NoExc == [origin |-> "none", within |-> "-"]

Init ==
    /\ pc = "start"
    /\ PROXIES \in StartProxies
    /\ proxy_check = "not_run"
    /\ account_id = None
    /\ auth_token = None
    /\ choice = "-"
    /\ notice = "-"
    /\ wsr = NoFrame
    /\ ret = NoRet
    /\ calls = <<>>
    /\ posts = <<>>
    /\ exc = NoExc
    /\ arg = "-"
    /\ res = "-"

\* an exception reaches the top of main: where it was raised, and whether
\* it passed through with_session_retry on its way
Crash(origin, within) ==
    /\ pc' = "crashed"
    /\ exc' = [origin |-> origin, within |-> within]

\* line 391
CheckProxy ==
    /\ pc = "start"
    /\ \E o \in ProxyCheckOutcomes :
          /\ PROXIES' = check_proxy(PROXIES, PROXIES, o)
          /\ proxy_check' = IF PROXIES.enabled THEN o ELSE "not_run"
    /\ pc' = "ask_account"
    /\ UNCHANGED <<account_id, auth_token, choice, notice, wsr, ret, calls, posts,
                   exc, arg, res>>

\* line 393
AskAccount ==
    /\ pc = "ask_account"
    /\ \E inp \in {"A0", "", EOF} :
          IF inp = EOF
          THEN Crash("input", "main") /\ UNCHANGED account_id
          ELSE pc' = "menu" /\ account_id' = inp /\ UNCHANGED exc
    /\ UNCHANGED <<PROXIES, proxy_check, auth_token, choice, notice, wsr, ret, calls, posts,
                   arg, res>>

\* choice "1", line 419: the login flow is run
ChoiceLogin ==
    /\ pc = "menu"
    /\ choice' = "1"
    /\ notice' = "-"
    /\ calls' = <<>>
    /\ \E in_acct \in {"A0", EOF}, in_pwd \in {"pw", EOF}, http \in LoginResponses :
          \E f \in {do_login_flow(account_id, PROXIES, in_acct, in_pwd, http)} :
              /\ posts' = f.posts
              /\ IF f.raised
                 THEN Crash(f.exc, "main") /\ UNCHANGED ret
                 ELSE /\ pc' = "login_return"
                      /\ ret' = Tuple4(-1, EmptyDict, f.token, f.acct_from_login)
                      /\ UNCHANGED exc
    /\ UNCHANGED <<PROXIES, proxy_check, account_id, auth_token, wsr, arg, res>>

\* lines 420-424
LoginAssign ==
    /\ pc = "login_return"
    /\ IF Truthy(ret.token)
       THEN /\ auth_token' = ret.token
            /\ account_id' = IF Truthy(ret.account_id) THEN ret.account_id
                             ELSE account_id
       ELSE UNCHANGED <<auth_token, account_id>>
    /\ pc' = "menu"
    /\ ret' = NoRet
    /\ posts' = <<>>
    /\ UNCHANGED <<PROXIES, proxy_check, choice, notice, wsr, calls, exc, arg, res>>

\* the operation a menu choice wraps
FnOfChoice(c) ==
    CASE c = "2" -> "add_update_wallet"
      [] c = "3" -> "withdraw_using_first_wallet"
      [] c = "4" -> "get_balance"
      [] c = "5" -> "get_inbox"
      [] c = "6" -> "add_update_wallet"
      [] c = "7" -> "get_statement"
      [] c = "8" -> "get_ticket_list"

AuthenticatedChoices == {"2", "3", "4", "5", "6", "7", "8"}

\* the choices that prompt for more input before they call
PromptingChoices == {"2", "3", "6"}

\* with_session_retry is entered: line 346
EnterRetry(fn) ==
    /\ wsr' = [NoFrame EXCEPT !.fn = fn, !.account_id = account_id,
                              !.token = auth_token]
    /\ pc' = "wsr_call"
    /\ calls' = <<>>
    /\ posts' = <<>>
    /\ ret' = NoRet

\* choices "2" to "8": the token gate, the prompts, and the call
ChoiceAuthenticated ==
    /\ pc = "menu"
    /\ \E c \in AuthenticatedChoices, eof \in BOOLEAN :
          /\ choice' = c
          /\ IF login_required(auth_token)
             THEN /\ notice' = "login_required"
                  /\ UNCHANGED <<pc, wsr, ret, calls, posts, exc>>
             ELSE /\ notice' = "-"
                  /\ IF eof /\ c \in PromptingChoices
                     THEN Crash("input", "main") /\ UNCHANGED <<wsr, ret, calls, posts>>
                     ELSE EnterRetry(FnOfChoice(c)) /\ UNCHANGED exc
    /\ UNCHANGED <<PROXIES, proxy_check, account_id, auth_token, arg, res>>

\* choices "9", "0", anything else, and a closed standard input
ChoiceOther ==
    /\ pc = "menu"
    /\ \E c \in {"9", "0", "x", EOF} :
          /\ choice' = c
          /\ notice' = CASE c = "9" -> "headers" [] c = "0" -> "bye"
                         [] c = "x" -> "invalid" [] OTHER -> "-"
          /\ IF c = EOF THEN Crash("input", "main")
             ELSE pc' = (IF c = "0" THEN "exit" ELSE "menu") /\ UNCHANGED exc
    /\ UNCHANGED <<PROXIES, proxy_check, account_id, auth_token, wsr, ret, calls, posts,
                   arg, res>>

\* the answers the requests of one invocation of fn may get
Answers(fn) ==
    IF fn = "withdraw_using_first_wallet"
    THEN BankListResponses \X BankListResponses \X WithdrawalResponses
    ELSE OpResponses \X {Failure} \X {Failure}

\* line 347, then the test of lines 348-349
WsrCall ==
    /\ pc = "wsr_call"
    /\ \E h \in Answers(wsr.fn) :
          \E o \in {Invoke(wsr.fn, wsr.account_id, wsr.token, PROXIES,
                          h[1], h[2], h[3])} :
              /\ posts' = o.posts
              /\ IF o.raised
                 THEN Crash("request_post", "with_session_retry")
                      /\ UNCHANGED <<wsr, ret, calls>>
                 ELSE /\ wsr' = [wsr EXCEPT !.code = o.code, !.data = o.data]
                      /\ calls' = Append(calls, FnCall(wsr.account_id, wsr.token, o))
                      /\ pc' = wsr_after_first(o.data)
                      /\ ret' = IF wsr_after_first(o.data) = "wsr_return"
                                THEN Tuple4(o.code, o.data, wsr.token, wsr.account_id)
                                ELSE ret
                      /\ UNCHANGED exc
    /\ UNCHANGED <<PROXIES, proxy_check, account_id, auth_token, choice, notice, arg, res>>

\* lines 350-354
WsrLogin ==
    /\ pc = "wsr_login"
    /\ \E in_acct \in {"A0", EOF}, in_pwd \in {"pw", EOF}, http \in LoginResponses :
          \E f \in {do_login_flow(wsr.account_id, PROXIES, in_acct, in_pwd, http)} :
              /\ posts' = f.posts
              /\ IF f.raised
                 THEN Crash(f.exc, "with_session_retry")
                      /\ UNCHANGED <<wsr, ret, calls>>
                 ELSE /\ calls' = Append(calls, LoginCall(wsr.account_id, f))
                      /\ UNCHANGED exc
                      /\ IF ~Truthy(f.token)
                         THEN /\ ret' = wsr_login_failed(wsr.code, wsr.data,
                                            wsr.token, wsr.account_id,
                                            f.acct_from_login)
                              /\ pc' = "wsr_return"
                              /\ UNCHANGED wsr
                         ELSE /\ wsr' = [wsr EXCEPT
                                    !.new_token = f.token,
                                    !.account_id = retry_account_id(wsr.account_id,
                                                        f.acct_from_login)]
                              /\ pc' = "wsr_retry"
                              /\ UNCHANGED ret
    /\ UNCHANGED <<PROXIES, proxy_check, account_id, auth_token, choice, notice, arg, res>>

\* lines 355-356
WsrRetry ==
    /\ pc = "wsr_retry"
    /\ \E h \in Answers(wsr.fn) :
          \E o \in {Invoke(wsr.fn, wsr.account_id, wsr.new_token, PROXIES,
                          h[1], h[2], h[3])} :
              /\ posts' = o.posts
              /\ IF o.raised
                 THEN Crash("request_post", "with_session_retry")
                      /\ UNCHANGED <<wsr, ret, calls>>
                 ELSE /\ wsr' = [wsr EXCEPT !.code = o.code, !.data = o.data]
                      /\ calls' = Append(calls,
                                         FnCall(wsr.account_id, wsr.new_token, o))
                      /\ pc' = wsr_after_retry(o.data)
                      /\ ret' = Tuple4(o.code, o.data, wsr.new_token, wsr.account_id)
                      /\ UNCHANGED exc
    /\ UNCHANGED <<PROXIES, proxy_check, account_id, auth_token, choice, notice, arg, res>>

\* the caller's  code, data, auth_token, account_id = with_session_retry(...);
\* choice "6" goes on to its withdrawal (lines 468-470)
MainAssign ==
    /\ pc = "wsr_return"
    /\ auth_token' = ret.token
    /\ account_id' = ret.account_id
    /\ IF choice = "6" /\ wsr.fn = "add_update_wallet"
       THEN \E eof \in BOOLEAN :
               IF eof
               THEN /\ Crash("input", "main")
                    /\ wsr' = NoFrame
                    /\ ret' = NoRet
                    /\ calls' = <<>>
                    /\ posts' = <<>>
               ELSE /\ wsr' = [NoFrame EXCEPT !.fn = "withdraw_using_first_wallet",
                                   !.account_id = ret.account_id,
                                   !.token = ret.token]
                    /\ pc' = "wsr_call"
                    /\ calls' = <<>>
                    /\ posts' = <<>>
                    /\ ret' = NoRet
                    /\ UNCHANGED exc
       ELSE /\ pc' = "menu"
            /\ wsr' = NoFrame
            /\ ret' = NoRet
            /\ calls' = <<>>
            /\ posts' = <<>>
            /\ UNCHANGED exc
    /\ UNCHANGED <<PROXIES, proxy_check, choice, notice, arg, res>>

Next ==
    \/ CheckProxy
    \/ AskAccount
    \/ ChoiceLogin
    \/ LoginAssign
    \/ ChoiceAuthenticated
    \/ ChoiceOther
    \/ WsrCall
    \/ WsrLogin
    \/ WsrRetry
    \/ MainAssign

Spec == Init /\ [][Next]_vars

----------------------------------------------------------------------------
(* Claims about with_session_retry, checked under Spec.  While the call runs *)
(* and until the caller assigns its result, main's auth_token and account_id *)
(* still hold the session the call was given.                                *)

FirstSignalsExpiry ==
    /\ Len(calls) >= 1
    /\ calls[1].data.kind = "dict"
    /\ calls[1].data.statusdesc \in ExpiryDescs

FirstIsPlain ==
    /\ Len(calls) >= 1
    /\ \/ calls[1].data.kind # "dict"
       \/ calls[1].data.statusdesc \in PlainDescs

LoginYieldedToken ==
    /\ Len(calls) >= 2
    /\ calls[2].ev = "login"
    /\ calls[2].new_token \in Tokens

LoginYieldedNoToken ==
    /\ Len(calls) >= 2
    /\ calls[2].ev = "login"
    /\ calls[2].new_token \notin Tokens

\* C1: when the first invocation's statusdesc signals expiry, the login flow
\* runs next, and when it yields a token the operation is invoked exactly
\* twice (old session, login, new session) and the call returns the second
\* (code, data) with the new token and the login's account id if it gave
\* one, the original otherwise.
C1_RetryOnceWithNewSession ==
    (pc = "wsr_return" /\ FirstSignalsExpiry) =>
        /\ Len(calls) >= 2
        /\ calls[1].ev = "fn"
        /\ calls[1].token = auth_token
        /\ calls[1].account_id = account_id
        /\ calls[2].ev = "login"
        /\ LoginYieldedToken =>
              /\ Len(calls) = 3
              /\ calls[3].ev = "fn"
              /\ calls[3].token = calls[2].new_token
              /\ ret.code = calls[3].code
              /\ ret.data = calls[3].data
              /\ ret.token = calls[2].new_token
              /\ ret.account_id =
                    IF calls[2].acct_from_login \in AccountIds
                    THEN calls[2].acct_from_login ELSE account_id

C1_Witness ==
    /\ pc = "wsr_return"
    /\ FirstSignalsExpiry
    /\ LoginYieldedToken
    /\ Len(calls) = 3
    /\ calls[2].acct_from_login \in AccountIds
    /\ calls[2].acct_from_login # account_id
    /\ calls[2].new_token # auth_token
    /\ calls[3].data.statusdesc = DescOk

\* C2: when the first response signals expiry and the login yields no token,
\* there is no second invocation and the call returns the first (code, data)
\* with the token and account id it was given, even when the login response
\* carried an account id.
C2_FailedLoginReturnsOriginal ==
    (FirstSignalsExpiry /\ LoginYieldedNoToken) =>
        /\ pc = "wsr_return"
        /\ Len(calls) = 2
        /\ ret.code = calls[1].code
        /\ ret.data = calls[1].data
        /\ ret.token = auth_token
        /\ ret.account_id = account_id

C2_Witness ==
    /\ pc = "wsr_return"
    /\ FirstSignalsExpiry
    /\ LoginYieldedNoToken
    /\ calls[2].acct_from_login \in AccountIds
    /\ calls[2].acct_from_login # account_id

\* C3: when the first response does not signal expiry (a body without
\* statusdesc or one that is no mapping included), the operation is invoked
\* once, the login flow is not entered, and the result comes back with the
\* token and account id the call was given.
C3_NoExpiryNoRetry ==
    FirstIsPlain =>
        /\ pc = "wsr_return"
        /\ Len(calls) = 1
        /\ \A i \in 1..Len(posts) : posts[i].path # "/member/memberlogin"
        /\ ret.code = calls[1].code
        /\ ret.data = calls[1].data
        /\ ret.token = auth_token
        /\ ret.account_id = account_id

C3_Witness ==
    /\ pc = "wsr_return"
    /\ Len(calls) = 1
    /\ calls[1].data.kind # "dict"

\* the first invocation's result is a transport failure, or an upstream error
\* (status >= 400, or an error field in a 200 body), with no expiry statusdesc
TransportFailure(c) ==
    c.code = 0 /\ c.data.kind = "dict" /\ c.data.error = "request_exception"
UpstreamError(c) ==
    \/ c.code >= 400
    \/ c.code = 200 /\ c.data.kind = "dict" /\ c.data.error # Absent
FirstIsPlainFailure ==
    /\ Len(calls) >= 1
    /\ calls[1].ev = "fn"
    /\ TransportFailure(calls[1]) \/ UpstreamError(calls[1])
    /\ ~(calls[1].data.kind = "dict" /\ calls[1].data.statusdesc \in ExpiryDescs)

\* C22: a first result that is a transport failure or an upstream error
\* without an expiry statusdesc is what the call returns, after one
\* invocation in which no request was sent twice and none to the login
\* endpoint (one request in all for the operations that are one request_post
\* call), with the session it was given.
C22_PlainFailureSurfacedOnce ==
    FirstIsPlainFailure =>
        /\ pc = "wsr_return"
        /\ Len(calls) = 1
        /\ ret = Tuple4(calls[1].code, calls[1].data, auth_token, account_id)
        /\ \A i \in 1..Len(posts) : posts[i].path # "/member/memberlogin"
        /\ \A i, j \in 1..Len(posts) : posts[i].path = posts[j].path => i = j
        /\ Len(posts) >= 1
        /\ wsr.fn # "withdraw_using_first_wallet" => Len(posts) = 1

\* a balance request that timed out, returned after the one request
C22_Witness ==
    /\ pc = "wsr_return"
    /\ Len(calls) = 1
    /\ wsr.fn = "get_balance"
    /\ Len(posts) = 1
    /\ TransportFailure(calls[1])
    /\ ret.code = 0

\* C4: one call invokes the operation at most twice and the login flow at
\* most once, and a second expiry after a re-login is returned as it is,
\* with the new session.
C4_AtMostOneRetry ==
    /\ Cardinality({i \in 1..Len(calls) : calls[i].ev = "fn"}) <= 2
    /\ Cardinality({i \in 1..Len(calls) : calls[i].ev = "login"}) <= 1
    /\ Len(calls) = 3 =>
          /\ pc = "wsr_return"
          /\ ret.code = calls[3].code
          /\ ret.data = calls[3].data
          /\ ret.token = calls[2].new_token

C4_Witness ==
    /\ pc = "wsr_return"
    /\ Len(calls) = 3
    /\ calls[3].data.kind = "dict"
    /\ calls[3].data.statusdesc \in ExpiryDescs

\* C6 (as claimed): whenever the upstream answers a request made inside the
\* first invocation with a session-expired statusdesc, the login flow is
\* entered.
C6_ExpiredAnswerEntersLogin ==
    (Len(calls) = 1 /\ \E i \in 1..Len(posts) : posts[i].answer_expired) =>
        pc = "wsr_login"

\* C8 (as claimed, for the credential prompt): a prompt that fails inside
\* with_session_retry does not escape it as an exception.
C8_PromptFailureIsReturned ==
    exc.origin = "input" => exc.within # "with_session_retry"

ProxyCheckFailed == proxy_check \in {"exception", "ok_not_json", "bad_status"}

\* C18: when the startup health check of the proxy fails, by an exception or
\* by a non-success status, the proxy setting is disabled and every request
\* sent afterwards goes out without a proxy.
C18_FailedCheckDisablesProxy ==
    ProxyCheckFailed =>
        /\ ~PROXIES.enabled
        /\ \A i \in 1..Len(posts) : ~posts[i].proxies.enabled

\* C24: a choice "2" to "8" made while no token is stored reports that a
\* login is required, enters no call, sends no request and leaves the
\* account id and the token as they are; so with_session_retry only runs
\* with a token stored, and every request of an authenticated operation
\* carries a token.
C24_NoTokenNoRequest ==
    [][ /\ (pc = "menu" /\ ~Truthy(auth_token) /\ choice' \in AuthenticatedChoices) =>
              /\ notice' = "login_required"
              /\ pc' = "menu"
              /\ posts' = <<>>
              /\ calls' = <<>>
              /\ wsr' = NoFrame
              /\ account_id' = account_id
              /\ auth_token' = auth_token
        /\ pc' \in {"wsr_call", "wsr_login", "wsr_retry", "wsr_return"} =>
              (Truthy(auth_token') /\ Truthy(wsr'.token))
        /\ \A i \in 1..Len(posts') :
              posts'[i].path # "/member/memberlogin" =>
                  Truthy(posts'[i].payload.auth_token)
      ]_vars

\* a withdrawal chosen with an account id but no token: only the notice
C24_Witness ==
    /\ pc = "menu"
    /\ choice = "3"
    /\ notice = "login_required"
    /\ account_id = "A0"
    /\ auth_token = None
    /\ posts = <<>>
    /\ calls = <<>>

\* C25: a login from the menu that yields no token leaves the stored token
\* and account id as they are; one that yields a token stores it, and the
\* account id of the response when there is one; a re-login inside
\* with_session_retry that yields no token hands the stored session back;
\* and no step takes a stored token, or a stored account id, away.
C25_SessionReplacedNeverLost ==
    [][ /\ pc = "login_return" =>
              IF Truthy(ret.token)
              THEN /\ auth_token' = ret.token
                   /\ account_id' = IF Truthy(ret.account_id) THEN ret.account_id
                                    ELSE account_id
              ELSE /\ auth_token' = auth_token
                   /\ account_id' = account_id
        /\ (pc = "wsr_return" /\ LoginYieldedNoToken) =>
              (auth_token' = auth_token /\ account_id' = account_id)
        /\ (pc = "wsr_return" /\ LoginYieldedToken) =>
              auth_token' = calls[2].new_token
        /\ Truthy(auth_token) => Truthy(auth_token')
        /\ Truthy(account_id) => Truthy(account_id')
      ]_vars

\* with a token stored, a login from the menu came back without a token but
\* with another account id
C25_Witness ==
    /\ pc = "login_return"
    /\ auth_token \in Tokens
    /\ ~Truthy(ret.token)
    /\ ret.account_id \in AccountIds
    /\ ret.account_id # account_id

\* C23: PROXIES changes only in the startup health check, only from a
\* configured proxy to none; once none it stays none; every later step
\* (prompts, logins, authenticated calls, retries) leaves it and the outcome
\* of the check as they are; and the check of an unconfigured proxy sends
\* no request (it is recorded as not run) and changes nothing.
C23_ProxiesOnlyDisabledByCheck ==
    [][ /\ PROXIES' # PROXIES =>
              (pc = "start" /\ PROXIES.enabled /\ PROXIES' = NoProxies
                 /\ proxy_check' \in ProxyCheckOutcomes)
        /\ ~PROXIES.enabled => ~PROXIES'.enabled
        /\ pc # "start" => (PROXIES' = PROXIES /\ proxy_check' = proxy_check)
        /\ (pc = "start" /\ ~PROXIES.enabled) =>
              (PROXIES' = PROXIES /\ proxy_check' = "not_run")
        /\ \A i \in 1..Len(posts') : posts'[i].proxies = PROXIES'
      ]_vars

\* the check raised, the proxy was switched off, and a request went out
\* directly afterwards
C23_Witness ==
    /\ proxy_check = "exception"
    /\ PROXIES = NoProxies
    /\ pc = "wsr_return"
    /\ Len(posts) >= 1
    /\ ~posts[1].proxies.enabled

----------------------------------------------------------------------------
(* request_post applied on its own *)

\* how many of the HTTP statuses below are drawn
MaxStatuses == 6

HttpStatuses == <<200, 401, 500, 204, 404, 503, 201, 302, 403, 502>>

StatusSet == { HttpStatuses[i] : i \in 1..(IF MaxStatuses < Len(HttpStatuses)
                                            THEN MaxStatuses ELSE Len(HttpStatuses)) }

JsonBodies ==
    { EmptyDict,
      [EmptyDict EXCEPT !.statusdesc = DescOk],
      [EmptyDict EXCEPT !.statusdesc = DescSessionExpired1],
      [EmptyDict EXCEPT !.error = "request_exception", !.message = "from upstream"],
      [EmptyDict EXCEPT !.raw_text = "from upstream"],
      [EmptyDict EXCEPT !.auth_token = "T1"],
      NotADict }

Texts == {"", "<html>Bad Gateway</html>", "{truncated"}

\* DNS, connection reset, timeout and TLS failures, which requests raises
\* as subclasses of RequestException; and exceptions of other classes that
\* requests.post lets through
HttpOutcomes ==
    { Response(st, b) : st \in StatusSet, b \in JsonBodies } \cup
    { TextResponse(st, t) : st \in StatusSet, t \in Texts } \cup
    { Raises("RequestException", m) :
        m \in {"ConnectionError: name resolution", "ConnectionError: reset",
               "ReadTimeout", "SSLError"} } \cup
    { Raises("Exception", m) :
        m \in {"OSError: could not find a suitable TLS CA certificate bundle",
               "TypeError: not JSON serializable"} }

NoRes == Returned(-1, EmptyDict)

InitPost ==
    /\ pc = "in"
    /\ PROXIES \in StartProxies
    /\ proxy_check = "not_run"
    /\ account_id = None
    /\ auth_token = None
    /\ choice = "-"
    /\ notice = "-"
    /\ wsr = NoFrame
    /\ ret = NoRet
    /\ calls = <<>>
    /\ posts = <<>>
    /\ exc = NoExc
    /\ arg \in [path : {"/member/memberlogin", "/fund/getbalance"},
                payload : {Payload("A0", "T1")},
                http : HttpOutcomes]
    /\ res = NoRes

CallRequestPost ==
    /\ pc = "in"
    /\ res' = request_post(arg.path, arg.payload, PROXIES, arg.http)
    /\ pc' = "out"
    /\ UNCHANGED <<PROXIES, proxy_check, account_id, auth_token, choice, notice, wsr, ret,
                   calls, posts, exc, arg>>

NextPost == CallRequestPost

SpecPost == InitPost /\ [][NextPost]_vars

\* C7 (as claimed): request_post never raises; any exception raised by the
\* HTTP call gives status code 0 with the request_exception payload, and
\* status code 0 is returned in that case only.
C7_NeverRaises ==
    pc = "out" =>
        /\ ~res.raised
        /\ (res.code = 0) <=> (arg.http.kind # "response")
        /\ arg.http.kind # "response" =>
              /\ res.data.error = "request_exception"
              /\ res.data.message = arg.http.text

\* C9: an HTTP response whose body is not valid JSON comes back as its
\* status code with {raw_text: body}; one whose body is valid JSON as its
\* status code with the parsed JSON, whatever the status is.
C9_ResponseBodyFallback ==
    (pc = "out" /\ arg.http.kind = "response") =>
        /\ ~res.raised
        /\ res.code = arg.http.status
        /\ arg.http.valid_json => res.data = arg.http.json
        /\ ~arg.http.valid_json =>
              /\ res.data.kind = "dict"
              /\ res.data.raw_text = arg.http.text
              /\ res.data.error = Absent
              /\ res.data.statusdesc = AbsentDesc

C9_Witness ==
    /\ pc = "out"
    /\ arg.http.kind = "response"
    /\ ~arg.http.valid_json
    /\ arg.http.status >= 500
    /\ res.code = arg.http.status
    /\ res.data.raw_text = "<html>Bad Gateway</html>"

----------------------------------------------------------------------------
(* extract_token_and_id applied on its own *)

\* the longest value array drawn
MaxValueLen == 2

\* the elements after the first one of a value array
LaterElem == [EmptyElem EXCEPT !.session_token = "Tz", !.account_id = "Az"]

FirstElems ==
    {NotADictElem, EmptyElem} \cup
    { [EmptyElem EXCEPT !.session_token = st, !.auth_token = at,
                        !.token = tk, !.account_id = ac] :
        st \in {Absent, "", "Te"}, at \in {Absent, "Tf"},
        tk \in {Absent, "Tg"}, ac \in {Absent, "A1"} }

ValueLists ==
    { ListOf(<<>>) } \cup
    { ListOf(<<f>> \o [i \in 1..n |-> LaterElem]) :
        f \in FirstElems, n \in 0..(MaxValueLen - 1) }

LoginBodies ==
    { [EmptyDict EXCEPT !.kind = k, !.auth_token = a, !.token = t,
                        !.data = d, !.value = v] :
        k \in {"dict", "other"},
        a \in {Absent, "", "Ta"}, t \in {Absent, None, "", "Tb"},
        d \in {NoData, [NoData EXCEPT !.kind = "other"]} \cup
              { [kind |-> "dict", auth_token |-> da, token |-> dt] :
                  da \in {Absent, "", "Tc"}, dt \in {Absent, "Td"} },
        v \in {NoValue, [NoValue EXCEPT !.kind = "other"]} \cup ValueLists }

InitExtract ==
    /\ pc = "in"
    /\ PROXIES = NoProxies
    /\ proxy_check = "not_run"
    /\ account_id = None
    /\ auth_token = None
    /\ choice = "-"
    /\ notice = "-"
    /\ wsr = NoFrame
    /\ ret = NoRet
    /\ calls = <<>>
    /\ posts = <<>>
    /\ exc = NoExc
    /\ arg \in LoginBodies
    /\ res = [token |-> None, acct |-> None]

CallExtract ==
    /\ pc = "in"
    /\ res' = extract_token_and_id(arg)
    /\ pc' = "out"
    /\ UNCHANGED <<PROXIES, proxy_check, account_id, auth_token, choice, notice, wsr, ret,
                   calls, posts, exc, arg>>

NextExtract == CallExtract

SpecExtract == InitExtract /\ [][NextExtract]_vars

IsToken(v) == v \notin {Absent, None, ""}

\* path 1: the top-level auth_token, else the top-level token
HasTop == IsToken(arg.auth_token) \/ IsToken(arg.token)
TopToken == IF IsToken(arg.auth_token) THEN arg.auth_token ELSE arg.token

\* path 2: the same keys of a nested data object
HasNested ==
    arg.data.kind = "dict" /\ (IsToken(arg.data.auth_token) \/ IsToken(arg.data.token))
NestedToken ==
    IF IsToken(arg.data.auth_token) THEN arg.data.auth_token ELSE arg.data.token

\* path 3: the first element of the value array
HasFirst ==
    arg.value.kind = "list" /\ Len(arg.value.items) >= 1 /\ arg.value.items[1].isdict
First == arg.value.items[1]
HasThird ==
    HasFirst /\ (IsToken(First.session_token) \/ IsToken(First.auth_token)
                 \/ IsToken(First.token))
ThirdToken ==
    IF IsToken(First.session_token) THEN First.session_token
    ELSE IF IsToken(First.auth_token) THEN First.auth_token
    ELSE First.token

\* C10: the token is the first that resolves of path 1, path 2, path 3, and
\* the account id is that of the first element of value, returned only when
\* neither path 1 nor path 2 resolved.
C10_OrderedSearch ==
    (pc = "out" /\ arg.kind = "dict") =>
        /\ HasTop => (res.token = TopToken /\ res.acct = None)
        /\ (~HasTop /\ HasNested) => (res.token = NestedToken /\ res.acct = None)
        /\ (~HasTop /\ ~HasNested /\ HasThird) =>
              /\ res.token = ThirdToken
              /\ res.acct = (IF First.account_id = Absent THEN None
                             ELSE First.account_id)

C10_Witness ==
    /\ pc = "out"
    /\ arg.kind = "dict"
    /\ ~IsToken(arg.auth_token)
    /\ arg.token = "Tb"
    /\ HasNested
    /\ HasThird
    /\ First.account_id = "A1"
    /\ res = [token |-> "Tb", acct |-> None]

\* no lookup path resolves a token (or the body is not a mapping of fields)
NoPathResolves == arg.kind # "dict" \/ ~(HasTop \/ HasNested \/ HasThird)

\* C11: whenever the body is not a mapping or none of the three lookup paths
\* resolves a token, extract_token_and_id returns exactly (None, None); this
\* covers token fields that are present but empty and a value[0] that carries
\* an account_id but no token.
C11_UnresolvedIsNoneNone ==
    (pc = "out" /\ NoPathResolves) => res = [token |-> None, acct |-> None]

----------------------------------------------------------------------------
(* The session-expiry test applied on its own.  A statusdesc is drawn as   *)
(* prefix, first word, separator, second word, suffix.                     *)

\* the longest separator drawn between the two words
MaxSep == 2

SepChars == {" ", "_", "\t"}

Seps == UNION { [1..n -> SepChars] : n \in 0..MaxSep }

\* "session" and "expired" in three letter cases, and other words
SessionWords ==
    { <<"s","e","s","s","i","o","n">>, <<"S","e","s","s","i","o","n">>,
      <<"S","E","S","S","I","O","N">> }

ExpiredWords ==
    { <<"e","x","p","i","r","e","d">>, <<"E","x","p","i","r","e","d">>,
      <<"E","X","P","I","R","E","D">> }

FirstWords ==
    SessionWords \cup { <<"s","e","s","s","i","o","n","s">>, <<"l","o","g","i","n">> }

SecondWords == ExpiredWords \cup { <<"e","x","p","i","r","e","s">> }

Prefixes == { <<>>, <<"E","r","r","o","r",":"," ">> }
Suffixes == { <<>>, <<","," ","l","o","g","i","n","!">> }

DescOf(a) == a.pre \o a.w1 \o a.sep \o a.w2 \o a.suf

BodyOf(a) ==
    IF a.shape = "dict" THEN [EmptyDict EXCEPT !.statusdesc = DescOf(a)]
    ELSE IF a.shape = "null" THEN [EmptyDict EXCEPT !.statusdesc = NullDesc]
    ELSE IF a.shape = "absent" THEN EmptyDict
    ELSE [NotADict EXCEPT !.statusdesc = DescOf(a)]

InitDetect ==
    /\ pc = "in"
    /\ PROXIES = NoProxies
    /\ proxy_check = "not_run"
    /\ account_id = None
    /\ auth_token = None
    /\ choice = "-"
    /\ notice = "-"
    /\ wsr = NoFrame
    /\ ret = NoRet
    /\ calls = <<>>
    /\ posts = <<>>
    /\ exc = NoExc
    /\ arg \in [shape : {"dict", "null", "absent", "other"},
                pre : Prefixes, w1 : FirstWords, sep : Seps,
                w2 : SecondWords, suf : Suffixes]
    /\ res = FALSE

CallDetect ==
    /\ pc = "in"
    /\ res' = (wsr_after_first(BodyOf(arg)) = "wsr_login")
    /\ pc' = "out"
    /\ UNCHANGED <<PROXIES, proxy_check, account_id, auth_token, choice, notice, wsr, ret,
                   calls, posts, exc, arg>>

NextDetect == CallDetect

SpecDetect == InitDetect /\ [][NextDetect]_vars

\* the two words are "session" and "expired" in some letter case
IsPhraseWords == arg.w1 \in SessionWords /\ arg.w2 \in ExpiredWords

IsWhitespaceOrUnderscore(c) == c \in {" ", "\t", "_"}

\* C5 (as claimed): a statusdesc that differs from "session expired" only in
\* letter case, in underscores or in the whitespace between the two words is
\* detected, and one without the phrase is not.
C5_AnySeparatorDetected ==
    (pc = "out" /\ arg.shape = "dict") =>
        (res <=> (IsPhraseWords
                  /\ \A i \in 1..Len(arg.sep) : IsWhitespaceOrUnderscore(arg.sep[i])))

\* what is left of the separator once its underscores are dropped
SepLeft == { i \in 1..Len(arg.sep) : arg.sep[i] # "_" }

\* C5 (amended): the statusdesc is detected exactly when the two words, in
\* any letter case, are separated by underscores only or by underscores and
\* one single space character; a body that is no mapping, or whose
\* statusdesc is absent or null, is not detected.
C5_SingleSpaceOrUnderscores ==
    pc = "out" =>
        (res <=> /\ arg.shape = "dict"
                 /\ IsPhraseWords
                 /\ Cardinality(SepLeft) <= 1
                 /\ \A i \in SepLeft : arg.sep[i] = " ")

C5_Witness ==
    /\ pc = "out"
    /\ arg.shape = "dict"
    /\ arg.w1 = <<"S","E","S","S","I","O","N">>
    /\ arg.w2 \in ExpiredWords
    /\ arg.sep = <<"_", " ">>
    /\ arg.pre # <<>>
    /\ res

----------------------------------------------------------------------------
(* make_device_profile applied on its own: two calls, the second with the  *)
(* first selector moved by a whole number of pool or family lengths.       *)

\* the states of the random generator drawn
MaxSeed == 6
\* the selectors drawn run from -2 up to this one
MaxSelector == 7
\* a selector far beyond every pool
FarSelector == 1000003

Seeds == 0..(MaxSeed - 1)
Urandoms == {0, 1}

FirstVariants ==
    {NoVariant} \cup { Variant(n) : n \in (-2)..MaxSelector } \cup {Variant(FarSelector)}

\* the distances between the two selectors
Shifts ==
    {0, Len(IOS_POOL), Len(families), Len(ANDROID_POOL),
     Len(families) * Len(IOS_POOL), Len(families) * Len(ANDROID_POOL)}

SecondVariants(first) ==
    IF first.given THEN { Variant(first.n + d) : d \in Shifts } ELSE {NoVariant}

InitProfile ==
    /\ pc = "in"
    /\ PROXIES = NoProxies
    /\ proxy_check = "not_run"
    /\ account_id = None
    /\ auth_token = None
    /\ choice = "-"
    /\ notice = "-"
    /\ wsr = NoFrame
    /\ ret = NoRet
    /\ calls = <<>>
    /\ posts = <<>>
    /\ exc = NoExc
    /\ \E first \in FirstVariants : \E second \in SecondVariants(first) :
          arg = [account_id |-> "A1", first |-> first, second |-> second,
                 now |-> 1700000000]
    /\ res = <<>>

CallMakeDeviceProfile ==
    /\ pc \in {"in", "one"}
    /\ \E rng \in Seeds, urandom \in Urandoms :
          res' = Append(res, make_device_profile(
                               arg.account_id,
                               IF pc = "in" THEN arg.first ELSE arg.second,
                               Entropy(rng, urandom, arg.now)))
    /\ pc' = IF pc = "in" THEN "one" ELSE "out"
    /\ UNCHANGED <<PROXIES, proxy_check, account_id, auth_token, choice, notice, wsr, ret,
                   calls, posts, exc, arg>>

NextProfile == CallMakeDeviceProfile

SpecProfile == InitProfile /\ [][NextProfile]_vars

\* the two profiles of a run name the same family / the same concrete device
SameFamily(p, q) == p.platform = q.platform
SameDevice(p, q) == p.vendor = q.vendor /\ p.model = q.model /\ p.screen = q.screen

\* the device pool of a family; the desktop families have none
DevicePoolOf(platform) ==
    IF platform = <<"A","n","d","r","o","i","d">> THEN ANDROID_POOL
    ELSE IF platform = <<"i","O","S">> THEN IOS_POOL
    ELSE <<>>

BothReturned == pc = "out" /\ ~res[1].raised /\ ~res[2].raised

\* C12 as stated: for N the size of the selected family's device pool, the
\* selectors v mod N and v mod N + N produce the same platform family and
\* the same concrete device (vendor, model, screen).
C12_SameUnderPoolLength ==
    (BothReturned /\ arg.first.given) =>
        LET N == Len(DevicePoolOf(res[1].platform))
        IN  (N > 0 /\ arg.first.n \in 0..(N - 1)
               /\ arg.second.n = arg.first.n + N)
            => (SameFamily(res[1], res[2]) /\ SameDevice(res[1], res[2]))

\* C12 (amended): for N the size of the device pool of the family that the
\* selector v selects, v and v + 4 * N produce the same platform family and
\* the same concrete device, while v and v + N produce different families.
C12_SameUnderFourPoolLengths ==
    (pc = "out" /\ arg.first.given) =>
        LET N == Len(DevicePoolOf(res[1].platform))
        IN  /\ (N > 0 /\ arg.second.n = arg.first.n + 4 * N)
               => /\ ~res[1].raised /\ ~res[2].raised
                  /\ SameFamily(res[1], res[2])
                  /\ SameDevice(res[1], res[2])
            /\ (N > 0 /\ arg.second.n = arg.first.n + N)
               => ~SameFamily(res[1], res[2])

C12_Witness ==
    /\ pc = "out"
    /\ arg.first = Variant(5)
    /\ arg.second = Variant(17)
    /\ res[1].platform = <<"i","O","S">>
    /\ res[1].model = "iPhone15,2"
    /\ res[2].model = "iPhone15,2"
    /\ res[1].os_version # res[2].os_version

\* C13: with a selector the family is the (selector mod 4)-th of Android,
\* iOS, Windows, macOS and the concrete device is fixed by the selector, so
\* two calls with the same selector yield the same family and the same
\* vendor, model and screen resolution, for mobile and desktop families.
C13_SameSelectorSameDevice ==
    (BothReturned /\ arg.first.given /\ arg.second = arg.first) =>
        /\ res[1].platform =
             << <<"A","n","d","r","o","i","d">>, <<"i","O","S">>,
                <<"W","i","n","d","o","w","s">>, <<"m","a","c","O","S">> >>
               [(arg.first.n % 4) + 1]
        /\ SameFamily(res[1], res[2])
        /\ SameDevice(res[1], res[2])

PlatformNames ==
    { <<"A","n","d","r","o","i","d">>, <<"i","O","S">>,
      <<"W","i","n","d","o","w","s">>, <<"m","a","c","O","S">> }

LowerCased(platform) ==
    CASE platform = <<"A","n","d","r","o","i","d">> -> <<"a","n","d","r","o","i","d">>
      [] platform = <<"i","O","S">> -> <<"i","o","s">>
      [] platform = <<"W","i","n","d","o","w","s">> -> <<"w","i","n","d","o","w","s">>
      [] platform = <<"m","a","c","O","S">> -> <<"m","a","c","o","s">>
      [] OTHER -> <<"?">>

\* C14: every call returns a profile (no selector makes generation fail),
\* and every profile has clock_skew_sec in [-120, 120], a positive screen
\* width and height, a platform among Android, iOS, Windows, macOS and the
\* lower-cased platform as its profile_variant tag.
C14_ProfileInvariants ==
    \A i \in 1..Len(res) :
        /\ ~res[i].raised
        /\ res[i].clock_skew_sec.t = "int"
        /\ res[i].clock_skew_sec.n >= -120
        /\ res[i].clock_skew_sec.n <= 120
        /\ res[i].screen.width > 0
        /\ res[i].screen.height > 0
        /\ res[i].platform \in PlatformNames
        /\ res[i].profile_variant = LowerCased(res[i].platform)

C14_Witness ==
    /\ pc = "out"
    /\ arg.first = Variant(FarSelector)
    /\ ~res[1].raised
    /\ res[1].clock_skew_sec.n = 120
    /\ res[2].clock_skew_sec.n = -120
    /\ res[1].platform = <<"m","a","c","O","S">>

IsHex(s) == \A i \in 1..Len(s) : \E j \in 1..16 : s[i] = HEX[j]
IsNumeric(s) == \A i \in 1..Len(s) : \E j \in 1..10 : s[i] = DIGITS[j]
IsDesktop(p) == p.platform \in { <<"W","i","n","d","o","w","s">>, <<"m","a","c","O","S">> }
IsAndroid(p) == p.platform = <<"A","n","d","r","o","i","d">>
IsIOS(p) == p.platform = <<"i","O","S">>

\* C15 as stated: Android and iOS profiles carry a non-empty android_id of
\* 16 hex characters; the IMEI is 15 digits on Android and empty on every
\* other family; Windows and macOS leave android_id and imei empty.
C15_MobileHardwareIds ==
    \A i \in 1..Len(res) :
        /\ (IsAndroid(res[i]) \/ IsIOS(res[i]))
              => (Len(res[i].android_id) = 16 /\ IsHex(res[i].android_id))
        /\ IsAndroid(res[i])
              => (Len(res[i].imei) = 15 /\ IsNumeric(res[i].imei))
        /\ ~IsAndroid(res[i]) => res[i].imei = <<>>
        /\ IsDesktop(res[i]) => res[i].android_id = <<>>

\* C15 (amended): only Android profiles carry hardware ids, an android_id
\* of 16 hex characters and an IMEI of 15 digits; iOS, Windows and macOS
\* profiles leave both android_id and imei empty.
C15_AndroidOnlyHardwareIds ==
    \A i \in 1..Len(res) :
        /\ IsAndroid(res[i])
              => /\ Len(res[i].android_id) = 16 /\ IsHex(res[i].android_id)
                 /\ Len(res[i].imei) = 15 /\ IsNumeric(res[i].imei)
        /\ ~IsAndroid(res[i])
              => (res[i].android_id = <<>> /\ res[i].imei = <<>>)

C15_Witness ==
    /\ pc = "out"
    /\ arg.first = Variant(1)
    /\ arg.second = Variant(4)
    /\ IsIOS(res[1])
    /\ res[1].android_id = <<>>
    /\ IsAndroid(res[2])
    /\ Len(res[2].android_id) = 16
    /\ Len(res[2].imei) = 15

\* the operating system a user agent names, per platform family
UserAgentSystemOf(platform) ==
    CASE platform = <<"A","n","d","r","o","i","d">> -> {"Linux; Android"}
      [] platform = <<"i","O","S">> -> {"iPhone; CPU iPhone OS"}
      [] platform = <<"W","i","n","d","o","w","s">> -> {"Windows NT"}
      [] platform = <<"m","a","c","O","S">> -> {"Macintosh; Intel Mac OS X"}
      [] OTHER -> {}

VendorsOf(platform) ==
    CASE platform = <<"A","n","d","r","o","i","d">> ->
            {ANDROID_POOL[k].vendor : k \in 1..Len(ANDROID_POOL)}
      [] platform = <<"i","O","S">> -> {"Apple"}
      [] platform = <<"W","i","n","d","o","w","s">> -> {"GenericPC"}
      [] platform = <<"m","a","c","O","S">> -> {"Apple"}
      [] OTHER -> {}

ModelsOf(platform) ==
    CASE platform = <<"A","n","d","r","o","i","d">> ->
            {ANDROID_POOL[k].model : k \in 1..Len(ANDROID_POOL)}
      [] platform = <<"i","O","S">> -> {IOS_POOL[k].model : k \in 1..Len(IOS_POOL)}
      [] platform = <<"W","i","n","d","o","w","s">> -> {"PC", "Laptop"}
      [] platform = <<"m","a","c","O","S">> -> {"MacBook Pro", "MacBook Air"}
      [] OTHER -> {}

OsVersionsOf(platform) ==
    CASE platform = <<"A","n","d","r","o","i","d">> ->
            { <<"1","1">>, <<"1","2">>, <<"1","3">>, <<"1","4">> }
      [] platform = <<"i","O","S">> ->
            { <<"1","5",".","6">>, <<"1","6",".","7">>, <<"1","7",".","5">> }
      [] platform = <<"W","i","n","d","o","w","s">> -> { <<"1","0">>, <<"1","1">> }
      [] platform = <<"m","a","c","O","S">> -> { <<"1","2">>, <<"1","3">> }
      [] OTHER -> {}

\* C26: every profile, drawn at random or by selector, has the vendor, the
\* model and the OS version of its own platform family and a user agent
\* written for that family: an Android one for Android, an iPhone one for
\* iOS, a Windows one for Windows, a macOS one for macOS.
C26_UserAgentOfOwnFamily ==
    \A i \in 1..Len(res) :
        ~res[i].raised =>
            /\ res[i].vendor \in VendorsOf(res[i].platform)
            /\ res[i].model \in ModelsOf(res[i].platform)
            /\ res[i].os_version \in OsVersionsOf(res[i].platform)
            /\ res[i].user_agent.system \in UserAgentSystemOf(res[i].platform)

----------------------------------------------------------------------------
(* build_headers applied on its own: two calls with the same profile at    *)
(* the same time.                                                          *)

\* profiles as make_device_profile returns them, one selector per family
GeneratedProfiles ==
    { make_device_profile("A1", Variant(n), Entropy(rng, 0, 1700000000)) :
        n \in 0..(Len(families) - 1), rng \in 0..1 }

BaseProfile == make_device_profile("A1", Variant(0), Entropy(1, 1, 1700000000))

\* profiles with missing keys
MissingKeyProfiles ==
    { [BaseProfile EXCEPT !.present = ks] :
        ks \in { {}, ProfileKeys \ {"clock_skew_sec"}, ProfileKeys \ {"platform"},
                 ProfileKeys \ {"profile_variant", "user_agent"} } }

\* profiles with empty or ill-typed fields
OddFieldProfiles ==
    { [BaseProfile EXCEPT !.clock_skew_sec = c] :
        c \in { PyStr(<<>>), PyStr(<<"3","0">>), PyNone } }
    \cup { [BaseProfile EXCEPT !.platform = p] :
             p \in { <<>>, <<"I","O","S">> } }
    \cup { [BaseProfile EXCEPT !.profile_variant = <<>>, !.vendor = "", !.model = ""] }

HeaderProfiles == GeneratedProfiles \cup MissingKeyProfiles \cup OddFieldProfiles

InitHeaders ==
    /\ pc = "in"
    /\ PROXIES = NoProxies
    /\ proxy_check = "not_run"
    /\ account_id = None
    /\ auth_token = None
    /\ choice = "-"
    /\ notice = "-"
    /\ wsr = NoFrame
    /\ ret = NoRet
    /\ calls = <<>>
    /\ posts = <<>>
    /\ exc = NoExc
    /\ \E p \in HeaderProfiles, t \in {0, 1700000000} :
          arg = [device_profile |-> p, now |-> t]
    /\ res = <<>>

CallBuildHeaders ==
    /\ pc \in {"in", "one"}
    /\ \E rng \in Seeds :
          res' = Append(res, build_headers(arg.device_profile, arg.now, rng))
    /\ pc' = IF pc = "in" THEN "one" ELSE "out"
    /\ UNCHANGED <<PROXIES, proxy_check, account_id, auth_token, choice, notice, wsr, ret,
                   calls, posts, exc, arg>>

NextHeaders == CallBuildHeaders

SpecHeaders == InitHeaders /\ [][NextHeaders]_vars

DisclosureHeaders == {"X-Test-Mode", "X-Test-Client", "X-Test-Note", "X-Test-Profile-Id"}

\* C16: for every profile content (any family, missing or empty fields)
\* build_headers returns a header set that includes X-Test-Mode,
\* X-Test-Client, X-Test-Note and X-Test-Profile-Id, with the fixed client
\* name and note, the test-mode flag and the profile's variant tag.
C16_DisclosureHeadersAlways ==
    \A i \in 1..Len(res) :
        /\ ~res[i].raised
        /\ DisclosureHeaders \subseteq DOMAIN res[i].headers
        /\ res[i].headers["X-Test-Mode"] = "true"
        /\ res[i].headers["X-Test-Client"] = "EpicWinCLI/1.1"
        /\ res[i].headers["X-Test-Note"] =
             "Authorized load testing / QA. Traffic is labeled and non-deceptive."
        /\ "profile_variant" \in arg.device_profile.present
              => res[i].headers["X-Test-Profile-Id"] = arg.device_profile.profile_variant

\* C17: two calls of build_headers with the same profile at the same time
\* return identical header sets, header for header, sec-ch-ua included.
C17_SameInputsSameHeaders ==
    (pc = "out" /\ ~res[1].raised /\ ~res[2].raised) =>
        \A name \in DOMAIN res[1].headers :
            /\ name \in DOMAIN res[2].headers
            /\ res[1].headers[name] = res[2].headers[name]

----------------------------------------------------------------------------
(* The proxy configuration read from the environment on its own *)

Environments ==
    [USE_PROXY : { EnvUnset(<<>>) } \cup
                 { EnvSet(v) : v \in { <<>>, <<"1">>, <<"0">>, <<" ","0"," ">>,
                                       <<"f","a","l","s","e">>, <<"F","a","l","s","e">>,
                                       <<"F","A","L","S","E">> } },
     PROXY_HOST : {EnvUnset(""), EnvSet(""), EnvSet("10.0.0.7")},
     PROXY_PORT : {EnvUnset(""), EnvSet("8080")},
     PROXY_USERNAME : {EnvUnset(""), EnvSet(""), EnvSet("user")},
     PROXY_PASSWORD : {EnvUnset(""), EnvSet(""), EnvSet("pw")}]

InitProxy ==
    /\ pc = "in"
    /\ PROXIES = NoProxies
    /\ proxy_check = "not_run"
    /\ account_id = None
    /\ auth_token = None
    /\ choice = "-"
    /\ notice = "-"
    /\ wsr = NoFrame
    /\ ret = NoRet
    /\ calls = <<>>
    /\ posts = <<>>
    /\ exc = NoExc
    /\ arg \in Environments
    /\ res = NoProxies

\* line 214
CallBuildProxies ==
    /\ pc = "in"
    /\ res' = PROXIES_from(arg)
    /\ PROXIES' = res'
    /\ pc' = "out"
    /\ UNCHANGED <<proxy_check, account_id, auth_token, choice, notice, wsr, ret,
                   calls, posts, exc, arg>>

NextProxy == CallBuildProxies

SpecProxy == InitProxy /\ [][NextProxy]_vars

HostUnset == ~arg.PROXY_HOST.set
HostEmpty == arg.PROXY_HOST.set /\ arg.PROXY_HOST.v = ""

\* the flag, blanks around it aside, is one of the disabling values
FlagDisables ==
    /\ arg.USE_PROXY.set
    /\ SelectSeq(arg.USE_PROXY.v, LAMBDA c : c # " ")
       \in { <<"0">>, <<"f","a","l","s","e">>, <<"F","a","l","s","e">> }

HostOfUrl == res.url[Len(res.url) - 2]

\* C19 as stated: with the proxy host absent (unset or empty) or the flag
\* disabling the proxy, build_proxies yields no proxy; a proxy mapping is
\* produced only when a host is configured and the proxy is not disabled.
C19_AbsentHostOrDisabledIsDirect ==
    pc = "out" =>
        /\ (HostUnset \/ HostEmpty \/ FlagDisables) => ~res.enabled
        /\ res.enabled => (~HostUnset /\ ~HostEmpty /\ ~FlagDisables)

\* C19 (amended): build_proxies yields no proxy exactly when the host is set
\* to the empty text or the flag is "0", "false" or "False"; otherwise it
\* yields a proxy mapping, to the configured host or, with the host unset,
\* to the built-in default host.
C19_EmptyHostOrDisabledIsDirect ==
    pc = "out" =>
        /\ ~res.enabled <=> (HostEmpty \/ FlagDisables)
        /\ ~res.enabled => res = [enabled |-> FALSE, url |-> <<>>]
        /\ res.enabled =>
             HostOfUrl = (IF HostUnset THEN "proxy.proxyverse.io" ELSE arg.PROXY_HOST.v)
        /\ PROXIES = res

C19_Witness ==
    /\ pc = "out"
    /\ HostUnset
    /\ ~arg.USE_PROXY.set
    /\ arg.PROXY_USERNAME = [set |-> TRUE, v |-> ""]
    /\ res.enabled
    /\ res.url = <<"http://", "proxy.proxyverse.io", ":", "9200">>

----------------------------------------------------------------------------
(* get_member_bank_list applied on its own *)

BankListAnswers ==
    BankListResponses \cup
    { Response(200, [EmptyDict EXCEPT !.value = [NoValue EXCEPT !.kind = "other"]]),
      Response(500, [EmptyDict EXCEPT !.value = ListOf(<<Wallet1>>)]),
      Response(200, NotADict),
      TextResponse(502, "<html>Bad Gateway</html>") }

NoOutcome == Outcome(Returned(-1, EmptyDict), <<>>)

InitBankList ==
    /\ pc = "in"
    /\ PROXIES = NoProxies
    /\ proxy_check = "not_run"
    /\ account_id = None
    /\ auth_token = None
    /\ choice = "-"
    /\ notice = "-"
    /\ wsr = NoFrame
    /\ ret = NoRet
    /\ calls = <<>>
    /\ posts = <<>>
    /\ exc = NoExc
    /\ arg \in [account_id : {"A1"}, token : Tokens,
                h1 : BankListAnswers, h2 : BankListAnswers]
    /\ res = NoOutcome

CallGetMemberBankList ==
    /\ pc = "in"
    /\ res' = get_member_bank_list(arg.account_id, arg.token, PROXIES, arg.h1, arg.h2)
    /\ pc' = "out"
    /\ UNCHANGED <<PROXIES, proxy_check, account_id, auth_token, choice, notice,
                   wsr, ret, calls, posts, exc, arg>>

NextBankList == CallGetMemberBankList

SpecBankList == InitBankList /\ [][NextBankList]_vars

IsJson(h) == h.kind = "response" /\ h.valid_json
\* the primary endpoint answered with an empty value list
PrimaryEmptyList ==
    IsJson(arg.h1) /\ arg.h1.json.kind = "dict"
       /\ arg.h1.json.value.kind = "list" /\ arg.h1.json.value.items = <<>>
\* the primary endpoint answered 200 with a non-empty value list
PrimaryNonEmptyList ==
    IsJson(arg.h1) /\ arg.h1.status = 200 /\ arg.h1.json.kind = "dict"
       /\ arg.h1.json.value.kind = "list" /\ arg.h1.json.value.items # <<>>

\* C20: /fund/getmemberbanklist is always requested first; when it returns
\* an empty list, /fund/getbanklistmb is requested exactly once after it and
\* the fallback's result is what the call returns; when it returns 200 with
\* a non-empty value list, that result is returned and no fallback request
\* is made.
C20_FallbackAfterEmptyPrimary ==
    pc = "out" =>
        /\ Len(res.posts) \in {1, 2}
        /\ res.posts[1].path = "/fund/getmemberbanklist"
        /\ \A i \in 1..Len(res.posts) :
              /\ res.posts[i].payload.account_id = arg.account_id
              /\ res.posts[i].payload.auth_token = arg.token
        /\ Len(res.posts) = 2 => res.posts[2].path = "/fund/getbanklistmb"
        /\ PrimaryEmptyList =>
              /\ Len(res.posts) = 2
              /\ IsJson(arg.h2) =>
                    (~res.raised /\ res.code = arg.h2.status /\ res.data = arg.h2.json)
              /\ arg.h2.kind = "RequestException" =>
                    (~res.raised /\ res.code = 0 /\ res.data.error = "request_exception")
        /\ PrimaryNonEmptyList =>
              /\ Len(res.posts) = 1
              /\ ~res.raised
              /\ res.code = 200
              /\ res.data = arg.h1.json

C20_Witness ==
    /\ pc = "out"
    /\ PrimaryEmptyList
    /\ arg.h2 = Response(200, [EmptyDict EXCEPT !.value = ListOf(<<Wallet1, Wallet2>>)])
    /\ Len(res.posts) = 2
    /\ res.posts[2].path = "/fund/getbanklistmb"
    /\ res.code = 200
    /\ res.data.value.items = <<Wallet1, Wallet2>>

----------------------------------------------------------------------------
(* withdraw_using_first_wallet on its own: the two wallet-list answers and *)
(* the answer to the withdrawal are drawn, the call is made once.          *)

\* saved wallets whose id fields are present but empty
WalletBlankIds ==
    [EmptyElem EXCEPT !.member_bank_id = "", !.id = "", !.bank_acc_no = "0920"]
WalletLaterId ==
    [EmptyElem EXCEPT !.member_bank_id = "", !.member_bank_list_id = "W4",
                      !.bank_id = "GCASH", !.bank_acc_no = "0921"]

WalletListAnswers ==
    { Response(200, [EmptyDict EXCEPT !.value = ListOf(<<Wallet1, Wallet2>>)]),
      Response(200, [EmptyDict EXCEPT !.value = ListOf(<<Wallet2, Wallet1>>)]),
      Response(200, [EmptyDict EXCEPT !.value = ListOf(<<WalletNoId, Wallet1>>)]),
      Response(200, [EmptyDict EXCEPT !.value = ListOf(<<WalletBlankIds, Wallet2>>)]),
      Response(200, [EmptyDict EXCEPT !.value = ListOf(<<WalletLaterId>>)]),
      Response(200, [EmptyDict EXCEPT !.value = ListOf(<<NotADictElem, Wallet1>>)]),
      Response(200, [EmptyDict EXCEPT !.value = ListOf(<<EmptyElem, Wallet1>>)]),
      Response(200, [EmptyDict EXCEPT !.statusdesc = DescOk, !.value = ListOf(<<>>)]),
      Response(200, [EmptyDict EXCEPT !.statusdesc = DescSessionExpired1]),
      Response(500, [EmptyDict EXCEPT !.value = ListOf(<<Wallet1>>)]),
      Response(200, NotADict),
      Failure, OtherFailure }

InitWithdraw ==
    /\ pc = "in"
    /\ PROXIES = NoProxies
    /\ proxy_check = "not_run"
    /\ account_id = None
    /\ auth_token = None
    /\ choice = "-"
    /\ notice = "-"
    /\ wsr = NoFrame
    /\ ret = NoRet
    /\ calls = <<>>
    /\ posts = <<>>
    /\ exc = NoExc
    /\ arg \in [account_id : {"A1"}, token : {"T1"},
                h1 : WalletListAnswers, h2 : WalletListAnswers,
                h3 : WithdrawalResponses]
    /\ res = NoOutcome

CallWithdrawUsingFirstWallet ==
    /\ pc = "in"
    /\ res' = withdraw_using_first_wallet(arg.account_id, arg.token, AMOUNT,
                                          PROXIES, arg.h1, arg.h2, arg.h3)
    /\ pc' = "out"
    /\ UNCHANGED <<PROXIES, proxy_check, account_id, auth_token, choice, notice,
                   wsr, ret, calls, posts, exc, arg>>

NextWithdraw == CallWithdrawUsingFirstWallet

SpecWithdraw == InitWithdraw /\ [][NextWithdraw]_vars

\* the wallet list the call obtained (settled by C20)
WalletList ==
    get_member_bank_list(arg.account_id, arg.token, PROXIES, arg.h1, arg.h2)
WalletListUsable ==
    ~WalletList.raised /\ WalletList.code = 200 /\ WalletList.data.kind = "dict"
SavedWallets ==
    IF WalletList.data.value.kind = "list" THEN WalletList.data.value.items
    ELSE <<>>
\* the list has a first wallet: a first entry that is a mapping with fields
HasFirstWallet ==
    /\ WalletListUsable
    /\ Len(SavedWallets) > 0
    /\ SavedWallets[1].isdict
    /\ SavedWallets[1] # EmptyElem
\* the ids the first wallet carries, in the order they are preferred
FirstWalletIds ==
    SelectSeq(<<SavedWallets[1].member_bank_id, SavedWallets[1].banklist_id,
                SavedWallets[1].id, SavedWallets[1].member_bank_list_id>>,
              LAMBDA v : v \notin {Absent, None, ""})
FirstWalletNumbers ==
    SelectSeq(<<SavedWallets[1].bank_acc_no, SavedWallets[1].account_no,
                SavedWallets[1].acc_no>>,
              LAMBDA v : v \notin {Absent, None, ""})
FirstWalletBanks ==
    SelectSeq(<<SavedWallets[1].bank_id, SavedWallets[1].bankname, "GCASH">>,
              LAMBDA v : v \notin {Absent, None, ""})
Withdrawals == {i \in 1..Len(res.posts) : res.posts[i].path = "/fund/withdrawal"}

\* C21: one call submits at most one withdrawal.  A wallet list that is not
\* (200, mapping) is returned as it is and nothing is submitted; a list
\* without a first wallet gives (200, statusdesc no_wallet_found) and nothing
\* is submitted; otherwise exactly one withdrawal is submitted, last, for the
\* first wallet: by its first non-empty id field when it has one, by its
\* bank and account number when it has none.
C21_WithdrawUsesFirstWallet ==
    pc = "out" =>
        /\ Cardinality(Withdrawals) <= 1
        /\ (~WalletList.raised /\ ~WalletListUsable) =>
              /\ Withdrawals = {}
              /\ ~res.raised
              /\ res.code = WalletList.code
              /\ res.data = WalletList.data
              /\ res.posts = WalletList.posts
        /\ (WalletListUsable /\ ~HasFirstWallet) =>
              /\ Withdrawals = {}
              /\ ~res.raised
              /\ res.code = 200
              /\ res.data.statusdesc = NO_WALLET_FOUND
              /\ res.data.status = "-1"
              /\ res.posts = WalletList.posts
        /\ HasFirstWallet =>
              /\ Withdrawals = {Len(res.posts)}
              /\ Len(res.posts) = Len(WalletList.posts) + 1
              /\ LET sent == res.posts[Len(res.posts)].payload
                 IN  /\ sent.account_id = arg.account_id
                     /\ sent.auth_token = arg.token
                     /\ sent.withdrawal_amount = AMOUNT
                     /\ IF FirstWalletIds # <<>>
                        THEN /\ sent.member_bank_id = FirstWalletIds[1]
                             /\ sent.bank_id = Absent
                             /\ sent.bank_acc_no = Absent
                        ELSE /\ sent.member_bank_id = Absent
                             /\ sent.bank_id = FirstWalletBanks[1]
                             /\ sent.bank_acc_no =
                                   IF FirstWalletNumbers # <<>>
                                   THEN FirstWalletNumbers[1] ELSE None
              /\ IsJson(arg.h3) =>
                    (~res.raised /\ res.code = arg.h3.status /\ res.data = arg.h3.json)

\* a withdrawal by bank and account number for a first wallet without ids,
\* while the second wallet has one
C21_Witness ==
    /\ pc = "out"
    /\ HasFirstWallet
    /\ FirstWalletIds = <<>>
    /\ Len(SavedWallets) = 2
    /\ SavedWallets[2].id = "W2"
    /\ Withdrawals # {}
    /\ res.posts[Len(res.posts)].payload.bank_acc_no = "0920"
    /\ ~res.raised

====
